---- MODULE Spec2Model ----
(***************************************************************************)
(* Recurring reminder scheduling and dispatch engine of EntrenaSmart.      *)
(*                                                                         *)
(* SchedulerService (backend/src/services/scheduler_service.py) keeps one  *)
(* APScheduler job per training reminder plus one broadcast job, the       *)
(* ConfigWatcherTask polls the broadcast configuration, and the reminder   *)
(* tasks deliver the messages from the scheduler's worker threads.         *)
(***************************************************************************)
EXTENDS Integers, Sequences, FiniteSets, TLC

VARIABLES
    scheduler,   \* SchedulerService.scheduler: "none" | "stopped" | "running"
    store,       \* rows of the durable table apscheduler_jobs
    pending,     \* jobs added while the scheduler is not running
    now,         \* wall clock in the configured timezone: [day, hm]
    config,      \* the single WeeklyReminderConfig row
    application, \* _global_application is set
    event_loop,  \* _global_event_loop: "none" | "stopped" | "running"
    last,        \* the last SchedulerService call: operation, inputs, result
    call,        \* a schedule_training_reminder call between its store accesses
    bot_data,    \* application.bot_data holds 'scheduler_service'
    last_config_hash,  \* ConfigWatcherTask._last_config_hash ("None" when unset)
    poll,        \* the last check_config_changes: what it saw and did
    firing,      \* per job: the run of its task function in a worker thread
    finished,    \* the firing that finished last
    loop_tasks,  \* delivery coroutines submitted to the event loop, not finished
    instances,   \* per job: how many runs of it the executor has in progress
    lookup,      \* per job: the day-config lookup of its send_reminder_sync in progress
    trainings,   \* rows of the table trainings: id -> [weekday, time_str] or none
    calc,        \* a call of _calculate_reminder_time: arguments, offset, result
    conv,        \* the /config_semana conversation of the trainer
    day_configs, \* rows of the table training_day_configs
    tx,          \* per caller: a configure_day transaction not yet committed
    threads      \* per thread: its schedule_training_reminder call in progress

serviceVars == <<scheduler, store, pending, now, config, application, event_loop, last>>
watcherVars == <<bot_data, last_config_hash, poll>>
dispatchVars == <<firing, finished, loop_tasks, instances, lookup>>
configVars == <<conv, day_configs, tx>>
threadVars == <<threads>>
domainVars == <<trainings, calc, configVars, threadVars>>

vars == <<serviceVars, call, watcherVars, dispatchVars, domainVars>>

-----------------------------------------------------------------------------
(* Bounds of the model *)

MaxDay == 0           \* the clock runs over days 0..MaxDay (day 0 is a Monday)
MaxWeek == 1          \* the dispatch clock runs over weeks 0..MaxWeek
TaskFutureTimeout == 2   \* seconds future.result waits (settings.task_future_timeout)
MaxTrainingId == 1       \* the table trainings holds ids 1..MaxTrainingId

(* Program constants *)

ReminderMinutesBefore == 30     \* settings.reminder_minutes_before (default)
MisfireGraceSeconds == 300      \* misfire_grace_time of add_job
DefaultMisfireGraceSeconds == 60   \* misfire_grace_time of job_defaults
MaxInstances == 1               \* max_instances of job_defaults

-----------------------------------------------------------------------------
(* Input domains *)

\* one training reminder shares the store with the broadcast job
TrainingIds == {1}

\* weekday arguments: Monday, Tuesday, and the invalid -1 and 7
WeekdayInputs == {-1, 0, 1, 7}

\* A training_time string, kept as the fields str.split(":") yields; a field
\* is a run of digits (with its value) or something int() rejects.
Tok(n) == [digits |-> TRUE, val |-> n]
BadTok == [digits |-> FALSE, val |-> 0]

T_0500 == <<Tok(5), Tok(0)>>        \* "05:00"
T_0010 == <<Tok(0), Tok(10)>>       \* "00:10"
T_0501 == <<Tok(5), Tok(1)>>        \* "05:01"
T_2400 == <<Tok(24), Tok(0)>>       \* "24:00"
T_5 == <<Tok(5)>>                   \* "5"

ValidTimes == {T_0500, T_0010}
InvalidTimes == {T_2400, T_5}
TrainingTimes == ValidTimes \cup InvalidTimes

ChatIds == {501}

\* minutes of the day at which the clock is observed: 04:00, 04:30, 04:45
ClockPoints == <<240, 270, 285>>

-----------------------------------------------------------------------------
(* Time *)

Instant(d, m) == [day |-> d, hm |-> m]
NoInstant == Instant(-1, 0)
Minutes(t) == t.day * 1440 + t.hm
Weekday(t) == t.day % 7                    \* datetime.weekday(), 0 = Monday

-----------------------------------------------------------------------------
(* Triggers *)

weekday_names == <<"mon", "tue", "wed", "thu", "fri", "sat", "sun">>

\* seq[i] of a Python list: negative indexes count from the end, an index
\* outside -len..len-1 raises IndexError.
PyIndex(seq, i) ==
    IF i >= 0 /\ i < Len(seq) THEN [ok |-> TRUE, v |-> seq[i + 1]]
    ELSE IF i < 0 /\ -i <= Len(seq) THEN [ok |-> TRUE, v |-> seq[Len(seq) + i + 1]]
    ELSE [ok |-> FALSE, v |-> "IndexError"]

DateTrigger(d, h, m) ==
    [kind |-> "date", day |-> d, dow |-> "", hour |-> h, minute |-> m]

CronTrigger(name, h, m) ==
    [kind |-> "cron", day |-> 0, dow |-> name, hour |-> h, minute |-> m]

\* weekday number of a cron day_of_week name
DowNumber(name) == CHOOSE i \in 0..(Len(weekday_names) - 1) : weekday_names[i + 1] = name

\* CronTrigger.get_next_fire_time: the first instant after `after` on the
\* trigger's weekday at its hour and minute.
CronNext(tr, after) ==
    LET hm == tr.hour * 60 + tr.minute
        days == {d \in after.day..(after.day + 7) :
                    /\ Weekday(Instant(d, hm)) = DowNumber(tr.dow)
                    /\ Minutes(Instant(d, hm)) > Minutes(after)}
        d0 == CHOOSE d \in days : \A e \in days : d <= e
    IN  Instant(d0, hm)

\* DateTrigger.get_next_fire_time: run_date until it has fired, then nothing.
DateNext(tr, fired) ==
    IF fired THEN NoInstant ELSE Instant(tr.day, tr.hour * 60 + tr.minute)

Earlier(a, b) ==
    IF a = NoInstant THEN b
    ELSE IF b = NoInstant THEN a
    ELSE IF Minutes(a) <= Minutes(b) THEN a ELSE b

RECURSIVE TriggerNext(_, _, _)
\* OrTrigger.get_next_fire_time: the earliest next fire time of its triggers
\* (a single trigger is used as it is). `fired` tells whether the job has
\* fired before (previous_fire_time is set).
TriggerNext(triggers, fired, after) ==
    IF triggers = <<>> THEN NoInstant
    ELSE LET tr == Head(triggers)
             t == IF tr.kind = "date" THEN DateNext(tr, fired) ELSE CronNext(tr, after)
         IN  Earlier(t, TriggerNext(Tail(triggers), fired, after))

-----------------------------------------------------------------------------
(* The scheduler library as SchedulerService uses it: a durable table keyed
   by job id while running, a list of pending jobs while stopped. *)

JobRow(job_id, triggers, args, next) ==
    [id |-> job_id, trigger |-> triggers, args |-> args, next |-> next]

\* the task function a stored job calls: add_job is given
\* WeeklyReminderTask.send_weekly_reminder_sync for the broadcast job and
\* ReminderTask.send_reminder_sync for every other job
JobFunc(job) ==
    IF job.id = "weekly_reminder_trainer"
    THEN "WeeklyReminderTask.send_weekly_reminder_sync"
    ELSE "ReminderTask.send_reminder_sync"

NoArgs == [chat_id |-> 0, weekday |-> 0, training_time |-> <<>>]

ReminderArgs(chat_id, weekday, training_time) ==
    [chat_id |-> chat_id, weekday |-> weekday, training_time |-> training_time]

\* index of the first pending job with this id, 0 when there is none
PendingIndex(pe, job_id) ==
    LET hits == {i \in 1..Len(pe) : pe[i].id = job_id}
    IN  IF hits = {} THEN 0 ELSE CHOOSE i \in hits : \A j \in hits : i <= j

\* the jobs scheduler.get_jobs() / get_job() can see
VisibleJobs(sch, st, pe) ==
    IF sch = "running" THEN st
    ELSE IF sch = "stopped" THEN {pe[i] : i \in 1..Len(pe)}
    ELSE {}

HasJobIn(sch, st, pe, job_id) == \E j \in VisibleJobs(sch, st, pe) : j.id = job_id

\* scheduler.get_job(job_id), for an id HasJobIn holds of
GetJobIn(sch, st, pe, job_id) ==
    IF sch = "running" THEN CHOOSE j \in st : j.id = job_id
    ELSE pe[PendingIndex(pe, job_id)]

RemoveAt(seq, i) == SubSeq(seq, 1, i - 1) \o SubSeq(seq, i + 1, Len(seq))

\* scheduler.remove_job(job_id), for an id HasJobIn holds of
RemoveJobIn(sch, st, pe, job_id) ==
    IF sch = "running"
    THEN [store |-> {j \in st : j.id # job_id}, pending |-> pe]
    ELSE [store |-> st, pending |-> RemoveAt(pe, PendingIndex(pe, job_id))]

\* add_job that keeps a row already stored under the id
AddJobInKeepsOld(sch, st, pe, job, at) ==
    IF sch = "running"
    THEN [store |-> st \cup {[job EXCEPT !.next = TriggerNext(job.trigger, FALSE, at)]},
          pending |-> pe]
    ELSE [store |-> st, pending |-> Append(pe, job)]

\* scheduler.add_job(..., id=job_id, replace_existing=True): while running the
\* row is written under its id (next_run_time computed from now), while
\* stopped the job is appended to the pending list.
AddJobIn(sch, st, pe, job, at) ==
    IF sch = "running"
    THEN [store |-> {j \in st : j.id # job.id}
                      \cup {[job EXCEPT !.next = TriggerNext(job.trigger, FALSE, at)]},
          pending |-> pe]
    ELSE [store |-> st, pending |-> Append(pe, job)]

-----------------------------------------------------------------------------
(* SchedulerService: pure helpers *)

JobId(training_id) == "reminder_training_" \o ToString(training_id)
WeeklyJobId == "weekly_reminder_trainer"

\* _calculate_reminder_time that stops at midnight instead of going back
\* into the previous day
CalculateReminderTimeClamped(training_time, offset) ==
    LET total == training_time[1].val * 60 + training_time[2].val - offset
        kept == IF total < 0 THEN 0 ELSE total
    IN  <<kept \div 60, kept % 60>>

\* _calculate_reminder_time for a given offset: parse "HH:MM", build
\* datetime(2000, 1, 1, hour, minute), subtract the offset, return its hour
\* and minute; any exception (a missing field, a field int() rejects, an hour
\* or minute datetime() rejects) yields (0, 0).
CalculateReminderTimeWith(training_time, offset) ==
    IF \/ Len(training_time) < 2
       \/ ~training_time[1].digits
       \/ ~training_time[2].digits
       \/ training_time[1].val \notin 0..23
       \/ training_time[2].val \notin 0..59
    THEN <<0, 0>>
    ELSE LET total == (training_time[1].val * 60 + training_time[2].val - offset) % 1440
         IN  <<total \div 60, total % 60>>

CalculateReminderTime(training_time) ==
    CalculateReminderTimeWith(training_time, ReminderMinutesBefore)

\* ComposeTriggers with the comparison against now made inclusive
ComposeTriggersInclusive(weekday, trigger_day, reminder_hour, reminder_minute, at) ==
    (IF Weekday(at) = weekday
        /\ Minutes(Instant(at.day, reminder_hour * 60 + reminder_minute)) >= Minutes(at)
     THEN <<[kind |-> "date", day |-> at.day, dow |-> "",
             hour |-> reminder_hour, minute |-> reminder_minute]>>
     ELSE <<>>)
    \o <<[kind |-> "cron", day |-> 0, dow |-> trigger_day,
          hour |-> reminder_hour, minute |-> reminder_minute]>>

\* The trigger list schedule_training_reminder builds: a DateTrigger for today
\* when today is the training weekday and today at the reminder time is later
\* than now, then always the weekly CronTrigger.
ComposeTriggers(weekday, trigger_day, reminder_hour, reminder_minute, at) ==
    (IF Weekday(at) = weekday
     THEN IF Minutes(Instant(at.day, reminder_hour * 60 + reminder_minute)) > Minutes(at)
          THEN <<DateTrigger(at.day, reminder_hour, reminder_minute)>>
          ELSE <<>>
     ELSE <<>>)
    \o <<CronTrigger(trigger_day, reminder_hour, reminder_minute)>>

Outcome(st, pe, ret) == [store |-> st, pending |-> pe, ret |-> ret]

\* _cancel_job that reports the job without removing it
CancelJobKeeps(sch, st, pe, job_id) ==
    IF sch = "none" THEN Outcome(st, pe, "False")
    ELSE IF HasJobIn(sch, st, pe, job_id) THEN Outcome(st, pe, "True")
    ELSE Outcome(st, pe, "False")

\* _cancel_job that removes without looking the job up first
CancelJobUnchecked(sch, st, pe, job_id) ==
    IF sch = "none" THEN Outcome(st, pe, "False")
    ELSE Outcome({j \in st : j.id # job_id},
                 SelectSeq(pe, LAMBDA j : j.id # job_id), "True")

\* _cancel_job: False without a scheduler or without the job, else remove it.
CancelJob(sch, st, pe, job_id) ==
    IF sch = "none" THEN Outcome(st, pe, "False")
    ELSE IF HasJobIn(sch, st, pe, job_id)
         THEN LET r == RemoveJobIn(sch, st, pe, job_id)
              IN  Outcome(r.store, r.pending, "True")
         ELSE Outcome(st, pe, "False")

\* schedule_training_reminder, from the state left by its _cancel_job call:
\* compute the reminder time, look the weekday name up (IndexError is caught
\* and gives ""), compose the triggers and add the job.
AddReminderJob(sch, st, pe, training_id, chat_id, weekday, training_time, at) ==
    LET rt == CalculateReminderTime(training_time)
        name == PyIndex(weekday_names, weekday)
    IN  IF ~name.ok THEN Outcome(st, pe, "")
        ELSE LET job == JobRow(JobId(training_id),
                               ComposeTriggers(weekday, name.v, rt[1], rt[2], at),
                               ReminderArgs(chat_id, weekday, training_time),
                               NoInstant)
                 r == AddJobIn(sch, st, pe, job, at)
             IN  Outcome(r.store, r.pending, JobId(training_id))

\* schedule_training_reminder as one call
ScheduleOutcome(sch, st, pe, training_id, chat_id, weekday, training_time, at) ==
    IF sch = "none" THEN Outcome(st, pe, "")
    ELSE LET c == CancelJob(sch, st, pe, JobId(training_id))
         IN  AddReminderJob(sch, c.store, c.pending,
                            training_id, chat_id, weekday, training_time, at)

\* job.reschedule(trigger): the job keeps id and args, gets the new trigger
\* and a next_run_time computed from it.
RescheduleJobIn(sch, st, pe, job_id, triggers, at) ==
    LET old == GetJobIn(sch, st, pe, job_id)
        new == [old EXCEPT !.trigger = triggers,
                           !.next = TriggerNext(triggers, FALSE, at)]
    IN  IF sch = "running"
        THEN [store |-> (st \ {old}) \cup {new}, pending |-> pe]
        ELSE [store |-> st,
              pending |-> [pe EXCEPT ![PendingIndex(pe, job_id)] = new]]

\* reschedule_training_reminder: False without scheduler or job; the weekday
\* is read from job.trigger.fields[4], which only a CronTrigger has: with an
\* OrTrigger the AttributeError is caught and the call returns False.
RescheduleOutcome(sch, st, pe, training_id, new_training_time, at) ==
    IF sch = "none" THEN Outcome(st, pe, "False")
    ELSE IF ~HasJobIn(sch, st, pe, JobId(training_id)) THEN Outcome(st, pe, "False")
    ELSE LET job == GetJobIn(sch, st, pe, JobId(training_id))
             rt == CalculateReminderTime(new_training_time)
         IN  IF Len(job.trigger) > 1 THEN Outcome(st, pe, "False")
             ELSE LET r == RescheduleJobIn(sch, st, pe, JobId(training_id),
                                           <<CronTrigger(job.trigger[1].dow, rt[1], rt[2])>>,
                                           at)
                  IN  Outcome(r.store, r.pending, "True")

\* schedule_weekly_reminder: "" without a scheduler or with an inactive
\* config (the stored job is left alone), else cancel and add the weekly job.
WeeklyOutcome(sch, st, pe, cfg, at) ==
    IF sch = "none" THEN Outcome(st, pe, "")
    ELSE IF ~cfg.is_active THEN Outcome(st, pe, "")
    ELSE LET c == CancelJob(sch, st, pe, WeeklyJobId)
             name == PyIndex(weekday_names, cfg.send_day)
         IN  IF ~name.ok THEN Outcome(c.store, c.pending, "")
             ELSE LET job == JobRow(WeeklyJobId,
                                    <<CronTrigger(name.v, cfg.send_hour, cfg.send_minute)>>,
                                    NoArgs, NoInstant)
                      r == AddJobIn(sch, c.store, c.pending, job, at)
                  IN  Outcome(r.store, r.pending, WeeklyJobId)

-----------------------------------------------------------------------------
(* State *)

\* WeeklyReminderConfig as the repository creates it: Sunday 18:00, active
DefaultConfig ==
    [is_active |-> TRUE, send_day |-> 6, send_hour |-> 18, send_minute |-> 0,
     is_monday_off |-> FALSE]

\* a call as `last` records it: operation, inputs, returned value, whether
\* the job was there before the call, and whether the call directly follows
\* a successful cancel of the same training
Call(op, training_id, weekday, training_time, ret, had) ==
    [op |-> op, id |-> training_id, weekday |-> weekday, time |-> training_time,
     ret |-> ret, had |-> had, again |-> FALSE]

NoCall == Call("none", 0, 0, <<>>, "", FALSE)

\* a schedule_training_reminder call in progress: where it stands, its
\* inputs, and whether the training had a job when the caller started
Step(pc, training_id, chat_id, weekday, training_time, had) ==
    [pc |-> pc, id |-> training_id, chat_id |-> chat_id, weekday |-> weekday,
     time |-> training_time, had |-> had]

NoStep == Step("idle", 0, 0, 0, <<>>, FALSE)

\* what asyncio gives initialize_scheduler: no loop, a loop that is not
\* running, or the running loop of the bot
LoopStates == {"none", "stopped", "running"}

\* the jobs the service creates: one per training, and the broadcast job
JobIds == {JobId(id) : id \in TrainingIds} \cup {WeeklyJobId}

\* a config the watcher has not read yet
NoConfig ==
    [is_active |-> FALSE, send_day |-> -1, send_hour |-> -1, send_minute |-> -1,
     is_monday_off |-> FALSE]

\* a check_config_changes run as `poll` records it: whether a fingerprint was
\* stored before it, whether it read the config, the config it read (the one
\* of the last poll that read it), whether any of the five fields differs
\* from what the previous poll read, whether day, hour or minute do, and how
\* often it called reschedule_weekly_reminder
Poll(stored, read, seen, changed, moved, calls) ==
    [stored |-> stored, read |-> read, seen |-> seen, changed |-> changed,
     moved |-> moved, calls |-> calls]

NoPoll == Poll(FALSE, FALSE, NoConfig, FALSE, FALSE, 0)

\* the run of a job's task function: where it stands ("idle", "waiting" on
\* future.result, "done"), the recipients and the one being served, how long
\* it has waited, how many deliveries it submitted and how many failed, how
\* it ended and what it returned, and the firing that had finished last
\* when it began
Firing(pc, students, idx, waited, submits, errors, outcome, ret, prior) ==
    [pc |-> pc, students |-> students, idx |-> idx, waited |-> waited,
     submits |-> submits, errors |-> errors, outcome |-> outcome, ret |-> ret,
     prior |-> prior]

\* the firing that finished last: its job and how it ended
Fired(job_id, outcome) == [id |-> job_id, outcome |-> outcome]

NoFired == Fired("", "none")

NoFiring == Firing("idle", <<>>, 0, 0, 0, 0, "none", "none", NoFired)

\* the day-config lookup of a send_reminder_sync call: what get_day_config
\* gave, the texts chosen for the message, and the storage session db
\* ("none": never opened)
Lookup(result, session_type, location, db) ==
    [result |-> result, session_type |-> session_type, location |-> location, db |-> db]

NoLookup == Lookup("none", "", "", "none")

\* a call of _calculate_reminder_time("HH:MM") under an offset setting
Calc(pc, hour, minute, offset, result) ==
    [pc |-> pc, hour |-> hour, minute |-> minute, offset |-> offset, result |-> result]

NoCalc == Calc("idle", 0, 0, 0, <<0, 0>>)

\* a row of the table trainings (day and time of the session), or its absence
Training(weekday, time_str) ==
    [exists |-> TRUE, weekday |-> weekday, time_str |-> time_str]

NoTraining == [exists |-> FALSE, weekday |-> 0, time_str |-> <<>>]

\* ConversationHandler.END and the states of the /config_semana conversation
END == -1
SELECT_DAY == 1
SELECT_SESSION_TYPE == 2
SELECT_LOCATION == 3
CONFIRM_DATA == 4
CONFIRM_CONTINUE == 5

\* ConfigTrainingState kept in context.user_data, or its absence
ConfigTrainingState(weekday, weekday_name, session_type, location) ==
    [exists |-> TRUE, weekday |-> weekday, weekday_name |-> weekday_name,
     session_type |-> session_type, location |-> location]

NoState ==
    [exists |-> FALSE, weekday |-> 0, weekday_name |-> "", session_type |-> "",
     location |-> ""]

\* the conversation: its state, the user's ConfigTrainingState, and the update
\* handled last (the state it arrived in, the handler's name, its text)
Conv(state, data, from, handler, text) ==
    [state |-> state, data |-> data, from |-> from, handler |-> handler, text |-> text]

\* a row of training_day_configs
TrainingDayConfig(id, weekday, weekday_name, session_type, location, is_active) ==
    [id |-> id, weekday |-> weekday, weekday_name |-> weekday_name,
     session_type |-> session_type, location |-> location, is_active |-> is_active]

\* a configure_day call inside get_db_context(): what it was given, the id of
\* the row its SELECT found (0: none), and how it ended
Tx(pc, weekday, session_type, location, found, ret) ==
    [pc |-> pc, weekday |-> weekday, session_type |-> session_type,
     location |-> location, found |-> found, ret |-> ret]

NoTx == Tx("idle", 0, "", "", 0, "none")

\* a schedule_training_reminder call of a thread: where it is, what it was
\* given, whether its get_job found a job, the clock it read, what it returned
ThreadCall(pc, training_id, chat_id, weekday, training_time, seen, at, ret) ==
    [pc |-> pc, training_id |-> training_id, chat_id |-> chat_id, weekday |-> weekday,
     training_time |-> training_time, seen |-> seen, at |-> at, ret |-> ret]

NoThreadCall == ThreadCall("idle", 0, 0, 0, <<>>, FALSE, NoInstant, "none")

Threads == {"A", "B"}

\* the processes that share the database: the bot and the API
Callers == {"bot", "api"}

HasJob(job_id) == HasJobIn(scheduler, store, pending, job_id)
GetJob(job_id) == GetJobIn(scheduler, store, pending, job_id)

InitProgram ==
    /\ scheduler = "none"
    /\ store = {}
    /\ pending = <<>>
    /\ now = Instant(0, ClockPoints[1])
    /\ config = DefaultConfig
    /\ application = FALSE
    /\ event_loop = "none"
    /\ last = NoCall
    /\ call = NoStep
    /\ bot_data = FALSE
    /\ last_config_hash = "None"
    /\ poll = NoPoll
    /\ firing = [j \in JobIds |-> NoFiring]
    /\ finished = NoFired
    /\ loop_tasks = {}
    /\ instances = [j \in JobIds |-> 0]
    /\ lookup = [j \in JobIds |-> NoLookup]
    /\ trainings = [id \in 1..MaxTrainingId |-> NoTraining]
    /\ conv = Conv(END, NoState, END, "none", "")
    /\ day_configs = {}
    /\ tx = [c \in Callers |-> NoTx]
    /\ threads = [t \in Threads |-> NoThreadCall]

Init == InitProgram /\ calc = NoCalc

-----------------------------------------------------------------------------
(* SchedulerService operations *)

\* initialize_scheduler: looks for the event loop of the calling thread
\* (running, not running, or none), creates a new BackgroundScheduler over the
\* durable table and sets the globals: the application the service was
\* constructed with (None by default), and the event loop when it found one
InitializeScheduler(app, loop) ==
    /\ scheduler \in {"none", "stopped"}
    /\ scheduler' = "stopped"
    /\ pending' = <<>>
    /\ application' = app
    /\ event_loop' = IF loop = "none" THEN event_loop ELSE loop
    /\ last' = Call("initialize", 0, 0, <<>>, "", FALSE)
    /\ UNCHANGED <<store, now, config>>

RECURSIVE FlushPending(_, _, _)
\* scheduler.start() writes the pending jobs to the store, in order
FlushPending(st, pe, at) ==
    IF pe = <<>> THEN st
    ELSE FlushPending(AddJobIn("running", st, <<>>, Head(pe), at).store, Tail(pe), at)

\* start: scheduler.start(), then schedule_weekly_reminder()
Start ==
    /\ scheduler = "stopped"
    /\ LET w == WeeklyOutcome("running", FlushPending(store, pending, now), <<>>,
                              config, now)
       IN  /\ store' = w.store
           /\ pending' = w.pending
    /\ scheduler' = "running"
    /\ last' = Call("start", 0, 0, <<>>, "", FALSE)
    /\ UNCHANGED <<now, config, application, event_loop>>

ScheduleTrainingReminder(training_id, chat_id, weekday, training_time) ==
    /\ LET r == ScheduleOutcome(scheduler, store, pending,
                                training_id, chat_id, weekday, training_time, now)
       IN  /\ store' = r.store
           /\ pending' = r.pending
           /\ last' = Call("schedule", training_id, weekday, training_time, r.ret,
                           HasJob(JobId(training_id)))
    /\ UNCHANGED <<scheduler, now, config, application, event_loop>>

CancelTrainingReminder(training_id) ==
    /\ LET r == CancelJob(scheduler, store, pending, JobId(training_id))
       IN  /\ store' = r.store
           /\ pending' = r.pending
           /\ last' = [Call("cancel", training_id, 0, <<>>, r.ret,
                            HasJob(JobId(training_id)))
                         EXCEPT !.again = /\ last.op = "cancel"
                                          /\ last.id = training_id
                                          /\ last.ret = "True"]
    /\ UNCHANGED <<scheduler, now, config, application, event_loop>>

RescheduleTrainingReminder(training_id, new_training_time) ==
    /\ LET r == RescheduleOutcome(scheduler, store, pending,
                                  training_id, new_training_time, now)
       IN  /\ store' = r.store
           /\ pending' = r.pending
           /\ last' = Call("reschedule", training_id, 0, new_training_time, r.ret,
                           HasJob(JobId(training_id)))
    /\ UNCHANGED <<scheduler, now, config, application, event_loop>>

ScheduleWeeklyReminder ==
    /\ LET r == WeeklyOutcome(scheduler, store, pending, config, now)
       IN  /\ store' = r.store
           /\ pending' = r.pending
           /\ last' = Call("weekly", 0, 0, <<>>, r.ret, HasJob(WeeklyJobId))
    /\ UNCHANGED <<scheduler, now, config, application, event_loop>>

-----------------------------------------------------------------------------
(* The clock *)

ClockIndex(m) == CHOOSE i \in 1..Len(ClockPoints) : ClockPoints[i] = m

NextInstant(t) ==
    IF ClockIndex(t.hm) < Len(ClockPoints)
    THEN Instant(t.day, ClockPoints[ClockIndex(t.hm) + 1])
    ELSE Instant(t.day + 1, ClockPoints[1])

Tick ==
    /\ NextInstant(now).day <= MaxDay
    /\ now' = NextInstant(now)
    /\ last' = NoCall
    /\ UNCHANGED <<scheduler, store, pending, config, application, event_loop>>

-----------------------------------------------------------------------------
(* The job lifecycle *)

Next ==
    \/ \E app \in BOOLEAN, loop \in LoopStates :
          InitializeScheduler(app, loop) /\ UNCHANGED <<call, watcherVars, dispatchVars, domainVars>>
    \/ Start /\ UNCHANGED <<call, watcherVars, dispatchVars, domainVars>>
    \/ \E id \in TrainingIds, c \in ChatIds, w \in WeekdayInputs, t \in TrainingTimes :
          ScheduleTrainingReminder(id, c, w, t) /\ UNCHANGED <<call, watcherVars, dispatchVars, domainVars>>
    \/ \E id \in TrainingIds : CancelTrainingReminder(id) /\ UNCHANGED <<call, watcherVars, dispatchVars, domainVars>>
    \/ \E id \in TrainingIds, t \in TrainingTimes :
          RescheduleTrainingReminder(id, t) /\ UNCHANGED <<call, watcherVars, dispatchVars, domainVars>>
    \/ ScheduleWeeklyReminder /\ UNCHANGED <<call, watcherVars, dispatchVars, domainVars>>
    \/ Tick /\ UNCHANGED <<call, watcherVars, dispatchVars, domainVars>>

Spec == Init /\ [][Next]_vars

-----------------------------------------------------------------------------
(* A reschedule seen between its store accesses: update_training cancels the
   reminder, then schedule_training_reminder cancels again and adds the job;
   each store access is a step of its own, so other threads see the states
   in between. *)

\* a caller enters schedule_training_reminder
ScheduleCall(training_id, chat_id, weekday, training_time) ==
    /\ call.pc = "idle"
    /\ call' = Step("schedule", training_id, chat_id, weekday, training_time,
                    HasJob(JobId(training_id)))
    /\ UNCHANGED serviceVars

\* update_training, after the edit is committed: cancel_training_reminder,
\* then the call of schedule_training_reminder
UpdateTrainingCancel(training_id, chat_id, weekday, training_time) ==
    /\ call.pc = "idle"
    /\ scheduler # "none"
    /\ LET r == CancelJob(scheduler, store, pending, JobId(training_id))
       IN  /\ store' = r.store
           /\ pending' = r.pending
    /\ call' = Step("schedule", training_id, chat_id, weekday, training_time,
                    HasJob(JobId(training_id)))
    /\ UNCHANGED <<scheduler, now, config, application, event_loop, last>>

\* schedule_training_reminder up to its _cancel_job call
ScheduleCancelStep ==
    /\ call.pc = "schedule"
    /\ IF scheduler = "none"
       THEN /\ call' = NoStep
            /\ last' = Call("schedule", call.id, call.weekday, call.time, "", call.had)
            /\ UNCHANGED <<store, pending>>
       ELSE /\ LET r == CancelJob(scheduler, store, pending, JobId(call.id))
               IN  /\ store' = r.store
                   /\ pending' = r.pending
            /\ call' = [call EXCEPT !.pc = "add"]
            /\ UNCHANGED last
    /\ UNCHANGED <<scheduler, now, config, application, event_loop>>

\* schedule_training_reminder from the reminder time to add_job
ScheduleAddStep ==
    /\ call.pc = "add"
    /\ LET r == AddReminderJob(scheduler, store, pending,
                               call.id, call.chat_id, call.weekday, call.time, now)
       IN  /\ store' = r.store
           /\ pending' = r.pending
           /\ last' = Call("schedule", call.id, call.weekday, call.time, r.ret, call.had)
    /\ call' = NoStep
    /\ UNCHANGED <<scheduler, now, config, application, event_loop>>

StepsNext ==
    \/ \E app \in BOOLEAN, loop \in LoopStates :
          InitializeScheduler(app, loop) /\ UNCHANGED <<call, watcherVars, dispatchVars, domainVars>>
    \/ Start /\ UNCHANGED <<call, watcherVars, dispatchVars, domainVars>>
    \/ \E id \in TrainingIds, c \in ChatIds, w \in WeekdayInputs, t \in TrainingTimes :
          ScheduleCall(id, c, w, t) /\ UNCHANGED <<watcherVars, dispatchVars, domainVars>>
    \/ \E id \in TrainingIds, c \in ChatIds, w \in WeekdayInputs, t \in TrainingTimes :
          UpdateTrainingCancel(id, c, w, t) /\ UNCHANGED <<watcherVars, dispatchVars, domainVars>>
    \/ ScheduleCancelStep /\ UNCHANGED <<watcherVars, dispatchVars, domainVars>>
    \/ ScheduleAddStep /\ UNCHANGED <<watcherVars, dispatchVars, domainVars>>
    \/ Tick /\ UNCHANGED <<call, watcherVars, dispatchVars, domainVars>>

SpecSteps == Init /\ [][StepsNext]_vars

-----------------------------------------------------------------------------
(* The broadcast configuration and its watcher *)

\* an optional argument: None, or a value
None == <<>>
Some(v) == <<v>>
OrElse(opt, old) == IF opt = None THEN old ELSE opt[1]

\* str() of a bool, as an f-string writes it
BoolStr(b) == IF b THEN "True" ELSE "False"

\* the fingerprint check_config_changes builds from the config it read
ConfigHash(cfg) ==
    BoolStr(cfg.is_active) \o "_" \o ToString(cfg.send_day) \o "_"
        \o ToString(cfg.send_hour) \o "_" \o ToString(cfg.send_minute) \o "_"
        \o BoolStr(cfg.is_monday_off)

\* the arguments update_config is called with
ActiveInputs == {None, Some(TRUE), Some(FALSE)}
MondayOffInputs == {None, Some(TRUE)}
SendDayInputs == {None, Some(0), Some(7)}
SendHourInputs == {None, Some(19)}
SendMinuteInputs == {None, Some(30)}

\* WeeklyReminderService.update_config: a value out of range raises and
\* nothing is written, else the given fields are written to the row
UpdateConfig(is_monday_off, send_day, send_hour, send_minute, is_active) ==
    /\ config' =
         IF \/ (send_day # None /\ ~(0 <= send_day[1] /\ send_day[1] <= 6))
            \/ (send_hour # None /\ ~(0 <= send_hour[1] /\ send_hour[1] <= 23))
            \/ (send_minute # None /\ ~(0 <= send_minute[1] /\ send_minute[1] <= 59))
         THEN config
         ELSE [is_active |-> OrElse(is_active, config.is_active),
               send_day |-> OrElse(send_day, config.send_day),
               send_hour |-> OrElse(send_hour, config.send_hour),
               send_minute |-> OrElse(send_minute, config.send_minute),
               is_monday_off |-> OrElse(is_monday_off, config.is_monday_off)]
    /\ last' = Call("update_config", 0, 0, <<>>, "", FALSE)
    /\ UNCHANGED <<scheduler, store, pending, now, application, event_loop>>

\* post_init with a job store that does not outlive the process
PostInitMemoryStore ==
    /\ scheduler = "none"
    /\ LET w == WeeklyOutcome("running", {}, <<>>, config, now)
       IN  /\ store' = w.store
           /\ pending' = w.pending
    /\ scheduler' = "running"
    /\ application' = TRUE
    /\ event_loop' = "running"
    /\ bot_data' = TRUE
    /\ last' = Call("post_init", 0, 0, <<>>, "", FALSE)
    /\ UNCHANGED <<now, config>>

\* post_init of the bot: SchedulerService(db, application), then
\* initialize_scheduler() on the running loop, start(), and the service is
\* put into application.bot_data
PostInit ==
    /\ scheduler = "none"
    /\ LET w == WeeklyOutcome("running", FlushPending(store, <<>>, now), <<>>,
                              config, now)
       IN  /\ store' = w.store
           /\ pending' = w.pending
    /\ scheduler' = "running"
    /\ application' = TRUE
    /\ event_loop' = "running"
    /\ bot_data' = TRUE
    /\ last' = Call("post_init", 0, 0, <<>>, "", FALSE)
    /\ UNCHANGED <<now, config>>

\* post_shutdown of the bot: stop() of the registered service (shutdown
\* without waiting for running jobs), then bot_data.clear()
PostShutdown ==
    /\ scheduler' = IF bot_data /\ scheduler = "running" THEN "stopped" ELSE scheduler
    /\ bot_data' = FALSE
    /\ last' = Call("post_shutdown", 0, 0, <<>>, "", FALSE)
    /\ UNCHANGED <<store, pending, now, config, application, event_loop>>

\* day, hour or minute of two configs differ
Moved(c1, c2) ==
    \/ c1.send_day # c2.send_day
    \/ c1.send_hour # c2.send_hour
    \/ c1.send_minute # c2.send_minute

\* ConfigWatcherTask.check_config_changes. db_ok: the config could be read
\* (any exception ends the poll).  The first poll stores the fingerprint; a
\* poll whose fingerprint differs calls reschedule_weekly_reminder when the
\* global application is set and its bot_data holds the service, and stores
\* the new fingerprint in either case.
CheckConfigChanges(db_ok) ==
    LET config_hash == ConfigHash(config)
        stored == last_config_hash # "None"
        differs == stored /\ config_hash # last_config_hash
        found == application /\ bot_data
        r == IF differs /\ found
             THEN WeeklyOutcome(scheduler, store, pending, config, now)
             ELSE Outcome(store, pending, "")
    IN  IF ~db_ok
        THEN /\ poll' = Poll(stored, FALSE, poll.seen, FALSE, FALSE, 0)
             /\ last' = Call("poll", 0, 0, <<>>, "", FALSE)
             /\ UNCHANGED <<store, pending, last_config_hash>>
        ELSE /\ store' = r.store
             /\ pending' = r.pending
             /\ last_config_hash' = IF ~stored \/ differs THEN config_hash
                                    ELSE last_config_hash
             /\ poll' = Poll(stored, TRUE, config, config # poll.seen,
                             Moved(config, poll.seen),
                             IF differs /\ found THEN 1 ELSE 0)
             /\ last' = Call("poll", 0, 0, <<>>, r.ret, HasJob(WeeklyJobId))

WatcherNext ==
    \/ PostInit /\ UNCHANGED <<call, last_config_hash, poll, dispatchVars, domainVars>>
    \/ PostShutdown /\ UNCHANGED <<call, last_config_hash, poll, dispatchVars, domainVars>>
    \/ \E m \in MondayOffInputs, d \in SendDayInputs, h \in SendHourInputs,
          mi \in SendMinuteInputs, a \in ActiveInputs :
          UpdateConfig(m, d, h, mi, a) /\ UNCHANGED <<call, watcherVars, dispatchVars, domainVars>>
    \/ \E db_ok \in BOOLEAN :
          /\ CheckConfigChanges(db_ok)
          /\ UNCHANGED <<scheduler, now, config, application, event_loop,
                         call, bot_data, dispatchVars, domainVars>>

SpecWatcher == Init /\ [][WatcherNext]_vars

-----------------------------------------------------------------------------
(* Dispatch: a due job runs its task function in a worker thread, which
   submits the delivery coroutine to the bot's event loop and waits for it.
   The task functions read the application and the event loop from the
   globals initialize_scheduler has set. *)

\* what the environment gives a firing
\* get_db() and get_day_config(weekday): a row, no row, an exception of the
\* query, an exception of get_db()
DayConfigs == {"ok", "none", "raises", "no_db"}
MessageBuilds == {"ok", "raises"}           \* Messages.training_reminder(...)
DbReads == {"ok", "empty", "raises"}        \* get_db() and service.get_config()
WeeklyMessages == {"ok", "none"}            \* service.get_message_to_send()
StudentLists == {<<>>, <<501, 502>>}   \* service.get_active_students()
DeliveryResults == {"ok", "raises"}         \* bot.send_message(...)

\* a delivery coroutine on the event loop: the job and chat it is for, and
\* whether the firing that submitted it has stopped waiting for it
Task(job_id, chat_id, late) == [job |-> job_id, chat_id |-> chat_id, late |-> late]

\* the lookup without its finally block: a failed query leaves the session open
LookupWithoutFinally(day_config) ==
    IF day_config = "ok" THEN Lookup("ok", "Pierna", "2do Piso", "closed")
    ELSE IF day_config = "none"
    THEN Lookup("none", "Entrenamiento", "Zona de Entrenamiento", "closed")
    ELSE IF day_config = "raises"
    THEN Lookup("raises", "Entrenamiento", "Zona de Entrenamiento", "open")
    ELSE Lookup("no_db", "Entrenamiento", "Zona de Entrenamiento", "none")

\* the day-config lookup of send_reminder_sync: the row's texts ("Pierna" in
\* "2do Piso" stands for a configured day), the placeholders when there is no
\* row or an exception; the session, once opened, is closed in any case
LookupDayConfig(day_config) ==
    IF day_config = "ok" THEN Lookup("ok", "Pierna", "2do Piso", "closed")
    ELSE IF day_config = "none"
    THEN Lookup("none", "Entrenamiento", "Zona de Entrenamiento", "closed")
    ELSE IF day_config = "raises"
    THEN Lookup("raises", "Entrenamiento", "Zona de Entrenamiento", "closed")
    ELSE Lookup("no_db", "Entrenamiento", "Zona de Entrenamiento", "none")

\* send_reminder_sync without its exception handlers
ReminderStartUnguarded(app, loop, day_config, message) ==
    LET bot == app
    IN  IF message = "raises" THEN "Raise"
        ELSE IF loop = "running"
             THEN IF ~bot THEN "Raise" ELSE "submit"
             ELSE "False"

\* send_reminder_sync up to future.result: "submit" when the coroutine was
\* handed to the loop, else the value returned.  A failure of the day-config
\* lookup only selects the default texts.  "exc" is an exception on its way
\* out of a block: the inner and the outer handler turn it into False.
ReminderStart(app, loop, day_config, message) ==
    LET bot == app
        inner == IF ~bot THEN "exc" ELSE "submit"
        body == IF message = "raises" THEN "exc"
                ELSE IF loop = "running"
                     THEN IF inner = "exc" THEN "False" ELSE inner
                     ELSE "False"
    IN  IF body = "exc" THEN "False" ELSE body

\* send_weekly_reminder_sync without the test of is_active
WeeklyStartIgnoresActive(cfg, app, loop, db, message, students) ==
    LET bot == app
        body == IF db = "raises" THEN "exc"
                ELSE IF db = "empty" THEN "False"
                ELSE IF message = "none" THEN "False"
                ELSE IF students = <<>> THEN "True"
                ELSE IF ~bot THEN "False"
                ELSE IF loop = "none" THEN "False"
                ELSE "loop"
    IN  IF body = "exc" THEN "False" ELSE body

\* send_weekly_reminder_sync up to its loop over the students: "loop" when
\* the loop is entered, else the value returned
WeeklyStart(cfg, app, loop, db, message, students) ==
    LET bot == app
        body == IF db = "raises" THEN "exc"
                ELSE IF db = "empty" THEN "False"
                ELSE IF ~cfg.is_active THEN "False"
                ELSE IF message = "none" THEN "False"
                ELSE IF students = <<>> THEN "True"
                ELSE IF ~bot THEN "False"
                ELSE IF loop = "none" THEN "False"
                ELSE "loop"
    IN  IF body = "exc" THEN "False" ELSE body

\* a firing that has ended
Ended(f, outcome, ret) == [f EXCEPT !.pc = "done", !.outcome = outcome, !.ret = ret]

\* the weekly task after the delivery to one student has ended: on to the
\* next student, or the summary (error_count == 0)
WeeklyAfterStudent(f, failed) ==
    LET errors == f.errors + (IF failed THEN 1 ELSE 0)
    IN  IF f.idx < Len(f.students)
        THEN [f EXCEPT !.idx = f.idx + 1, !.waited = 0, !.errors = errors,
                       !.submits = f.submits + 1]
        ELSE Ended([f EXCEPT !.errors = errors],
                   IF errors = 0 THEN "Sent" ELSE "Failed",
                   IF errors = 0 THEN "True" ELSE "False")

\* a reminder task that submits the delivery again after a timeout
ReminderTimedOutRetry(f) ==
    [f EXCEPT !.waited = 0, !.submits = f.submits + 1]

\* the reminder task when future.result(timeout) raises TimeoutError: False
\* is returned, nothing is submitted again, the coroutine is left on the loop
ReminderTimedOut(f) == Ended(f, "TimedOut", "False")

\* the reminder task when future.result returns or raises
ReminderDelivered(f, result) ==
    IF result = "ok" THEN Ended(f, "Sent", "True") ELSE Ended(f, "Failed", "False")

\* the coroutine a waiting firing waits for
WaitedTask(job_id) ==
    Task(job_id, firing[job_id].students[firing[job_id].idx], FALSE)

\* the coroutines on the loop once the firing of job_id has moved from f to g
TasksAfter(job_id, f, g, tasks) ==
    IF g.pc = "waiting" /\ (f.pc # "waiting" \/ g.idx # f.idx \/ g.submits # f.submits)
    THEN tasks \cup {Task(job_id, g.students[g.idx], FALSE)}
    ELSE tasks

\* the row of a job the running scheduler finds due
DueJob(job_id) ==
    /\ scheduler = "running"
    /\ \E job \in store :
          job.id = job_id /\ job.next # NoInstant /\ Minutes(job.next) <= Minutes(now)

\* a scheduler that asks the triggers as if the job had never fired
AfterRunForgetsFired(job) ==
    LET next == TriggerNext(job.trigger, FALSE, now)
    IN  IF next = NoInstant THEN store \ {job}
        ELSE (store \ {job}) \cup {[job EXCEPT !.next = next]}

\* the store once the scheduler has handed the due job to the executor: the
\* next run time is computed from the trigger, a job without one is removed
AfterRun(job) ==
    LET next == TriggerNext(job.trigger, TRUE, now)
    IN  IF next = NoInstant THEN store \ {job}
        ELSE (store \ {job}) \cup {[job EXCEPT !.next = next]}

RECURSIVE LastRunTime(_, _, _)
\* the run time the scheduler hands to the executor: of the fire times that
\* have come due since job.next it keeps the latest one (coalesce=True)
LastRunTime(triggers, t, at) ==
    LET n == TriggerNext(triggers, TRUE, t)
    IN  IF n = NoInstant \/ Minutes(n) > Minutes(at) THEN t
        ELSE LastRunTime(triggers, n, at)

\* seconds between the run time of a due job and now
Lateness(job) == (Minutes(now) - Minutes(LastRunTime(job.trigger, job.next, now))) * 60

\* the executor drops a run that is later than the job's misfire_grace_time
Missed(job) == Lateness(job) > MisfireGraceSeconds

\* a firing at its start, and the one that ended before the wait
Begun(students, prior) == Firing("waiting", students, 1, 0, 1, 0, "none", "none", prior)
Returned(students, prior, ret) ==
    Firing("done", students, 0, 0, 0, 0,
           IF ret = "True" THEN "Sent" ELSE IF ret = "False" THEN "Failed" ELSE "Raised",
           ret, prior)

\* an executor that never refuses a run
MaxInstancesNeverReached(running) == FALSE

\* the executor refuses a run of a job that has max_instances runs in progress
MaxInstancesReached(running) == running >= MaxInstances

\* the scheduler processes a due job: an instance still running makes it skip
\* the run (max_instances=1), a run past the grace time is dropped, else the
\* task function runs up to its wait; `start` is what the function did
RunJob(job_id, students, start) ==
    LET job == CHOOSE j \in store : j.id = job_id
        f == firing[job_id]
        skip == MaxInstancesReached(instances[job_id])
        g == IF skip THEN f
             ELSE IF Missed(job)
             THEN Ended(Firing("idle", <<>>, 0, 0, 0, 0, "none", "none", finished),
                        "Missed", "none")
             ELSE IF start \in {"submit", "loop"} THEN Begun(students, finished)
             ELSE Returned(students, finished, start)
    IN  /\ DueJob(job_id)
        /\ store' = AfterRun(job)
        /\ firing' = [firing EXCEPT ![job_id] = g]
        /\ loop_tasks' = TasksAfter(job_id, f, g, loop_tasks)
        /\ finished' = IF g.pc = "done" /\ f.pc # "waiting"
                       THEN Fired(job_id, g.outcome) ELSE finished
        /\ instances' = [instances EXCEPT ![job_id] =
                            IF ~skip /\ g.pc = "waiting" THEN @ + 1 ELSE @]
        /\ UNCHANGED <<scheduler, pending, now, config, application, event_loop, last>>

\* a reminder job fires: ReminderTask.send_reminder_sync(*job.args)
FireReminder(training_id, day_config, message) ==
    /\ DueJob(JobId(training_id))
    /\ RunJob(JobId(training_id),
              <<(CHOOSE j \in store : j.id = JobId(training_id)).args.chat_id>>,
              ReminderStart(application, event_loop, day_config, message))
    /\ lookup' = [lookup EXCEPT ![JobId(training_id)] =
                     IF firing[JobId(training_id)].pc # "waiting"
                          /\ firing'[JobId(training_id)].pc = "waiting"
                     THEN LookupDayConfig(day_config) ELSE @]

\* the broadcast job fires: WeeklyReminderTask.send_weekly_reminder_sync()
FireWeekly(db, message, students) ==
    /\ RunJob(WeeklyJobId, students,
              WeeklyStart(config, application, event_loop, db, message, students))
    /\ UNCHANGED lookup

\* the event loop runs the coroutine a firing waits for: future.result
\* returns, or raises what send_message raised
DeliveryCompletes(job_id, result) ==
    LET f == firing[job_id]
        g == IF job_id = WeeklyJobId THEN WeeklyAfterStudent(f, result = "raises")
             ELSE ReminderDelivered(f, result)
    IN  /\ f.pc = "waiting"
        /\ event_loop = "running"
        /\ WaitedTask(job_id) \in loop_tasks
        /\ firing' = [firing EXCEPT ![job_id] = g]
        /\ loop_tasks' = TasksAfter(job_id, f, g, loop_tasks \ {WaitedTask(job_id)})
        /\ finished' = IF g.pc = "done" THEN Fired(job_id, g.outcome) ELSE finished
        /\ instances' = [instances EXCEPT ![job_id] = IF g.pc = "done" THEN @ - 1 ELSE @]
        /\ lookup' = [lookup EXCEPT ![job_id] = IF g.pc = "done" THEN NoLookup ELSE @]
        /\ UNCHANGED serviceVars

\* future.result(timeout) gives up after task_future_timeout: the reminder
\* task returns False, the weekly task counts an error; the coroutine stays
\* on the loop (the future is not cancelled)
FutureTimeout(job_id) ==
    LET f == firing[job_id]
        g == IF job_id = WeeklyJobId THEN WeeklyAfterStudent(f, TRUE)
             ELSE ReminderTimedOut(f)
        t == WaitedTask(job_id)
    IN  /\ f.pc = "waiting"
        /\ f.waited = TaskFutureTimeout
        /\ firing' = [firing EXCEPT ![job_id] = g]
        /\ loop_tasks' = TasksAfter(job_id, f, g,
                                    (loop_tasks \ {t}) \cup {[t EXCEPT !.late = TRUE]})
        /\ finished' = IF g.pc = "done" THEN Fired(job_id, g.outcome) ELSE finished
        /\ instances' = [instances EXCEPT ![job_id] = IF g.pc = "done" THEN @ - 1 ELSE @]
        /\ lookup' = [lookup EXCEPT ![job_id] = IF g.pc = "done" THEN NoLookup ELSE @]
        /\ UNCHANGED serviceVars

\* a second passes for every waiting firing; none waits past its timeout
SecondPasses ==
    /\ \E j \in JobIds : firing[j].pc = "waiting"
    /\ \A j \in JobIds : firing[j].pc = "waiting" => firing[j].waited < TaskFutureTimeout
    /\ firing' = [j \in JobIds |->
                    IF firing[j].pc = "waiting"
                    THEN [firing[j] EXCEPT !.waited = firing[j].waited + 1]
                    ELSE firing[j]]
    /\ UNCHANGED <<serviceVars, finished, loop_tasks, instances, lookup>>

\* the event loop runs a coroutine nobody waits for any more
LateDelivery(task) ==
    /\ task \in loop_tasks
    /\ task.late
    /\ event_loop = "running"
    /\ loop_tasks' = loop_tasks \ {task}
    /\ UNCHANGED <<serviceVars, firing, finished, instances, lookup>>

\* the clock of the dispatch model: time passes to the next instant of
\* interest, which is the next clock point of a Monday or the next run time
\* of a stored job; a running scheduler has processed what is due, and no
\* worker is inside a wait
NextMonday(t) == Instant(t.day - (t.day % 7) + 7, ClockPoints[1])

NextPoint(t) ==
    LET later == {i \in 1..Len(ClockPoints) : ClockPoints[i] > t.hm}
    IN  IF t.day % 7 = 0 /\ later # {}
        THEN Instant(t.day, ClockPoints[CHOOSE i \in later : \A k \in later : i <= k])
        ELSE NextMonday(t)

RECURSIVE EarliestOf(_, _)
EarliestOf(instants, t) ==
    IF instants = {} THEN t
    ELSE LET i == CHOOSE x \in instants : TRUE
         IN  EarliestOf(instants \ {i}, IF Minutes(i) < Minutes(t) THEN i ELSE t)

DispatchTick ==
    LET runs == {job.next : job \in {j \in store : j.next # NoInstant
                                        /\ Minutes(j.next) > Minutes(now)}}
        target == EarliestOf(runs, NextPoint(now))
    IN  /\ \A j \in JobIds : firing[j].pc # "waiting" /\ ~DueJob(j)
        /\ target.day \div 7 <= MaxWeek
        /\ now' = target
        /\ last' = NoCall
        /\ UNCHANGED <<scheduler, store, pending, config, application, event_loop>>

\* The service is set up once (any application, any loop), a Monday 05:00
\* training gets its reminder, the broadcast is switched on and off, and
\* the scheduler fires what is due.
DispatchNext ==
    \/ \E app \in BOOLEAN, loop \in LoopStates :
          /\ scheduler = "none"
          /\ InitializeScheduler(app, loop)
          /\ UNCHANGED <<call, watcherVars, dispatchVars, domainVars>>
    \/ Start /\ UNCHANGED <<call, watcherVars, dispatchVars, domainVars>>
    \/ \E id \in TrainingIds, c \in ChatIds :
          /\ ~HasJob(JobId(id))
          /\ ScheduleTrainingReminder(id, c, 0, T_0500)
          /\ UNCHANGED <<call, watcherVars, dispatchVars, domainVars>>
    \/ \E a \in {Some(TRUE), Some(FALSE)} :
          UpdateConfig(None, None, None, None, a)
             /\ UNCHANGED <<call, watcherVars, dispatchVars, domainVars>>
    \/ \E id \in TrainingIds, d \in DayConfigs, m \in MessageBuilds :
          FireReminder(id, d, m) /\ UNCHANGED <<call, watcherVars, domainVars>>
    \/ \E db \in DbReads, m \in WeeklyMessages, st \in StudentLists :
          FireWeekly(db, m, st) /\ UNCHANGED <<call, watcherVars, domainVars>>
    \/ \E j \in JobIds, r \in DeliveryResults :
          DeliveryCompletes(j, r) /\ UNCHANGED <<call, watcherVars, domainVars>>
    \/ \E j \in JobIds : FutureTimeout(j) /\ UNCHANGED <<call, watcherVars, domainVars>>
    \/ SecondPasses /\ UNCHANGED <<call, watcherVars, domainVars>>
    \/ \E t \in loop_tasks : LateDelivery(t) /\ UNCHANGED <<call, watcherVars, domainVars>>
    \/ DispatchTick /\ UNCHANGED <<call, watcherVars, dispatchVars, domainVars>>

SpecDispatch == Init /\ [][DispatchNext]_vars

\* The dispatch with cancellation: the service is set up once, the reminder
\* of the Monday 05:00 training is scheduled and cancelled at any moment, also
\* while its firing waits for the delivery.
CancelNext ==
    \/ \E app \in BOOLEAN, loop \in LoopStates :
          /\ scheduler = "none"
          /\ InitializeScheduler(app, loop)
          /\ UNCHANGED <<call, watcherVars, dispatchVars, domainVars>>
    \/ Start /\ UNCHANGED <<call, watcherVars, dispatchVars, domainVars>>
    \/ \E id \in TrainingIds, c \in ChatIds :
          /\ ~HasJob(JobId(id))
          /\ ScheduleTrainingReminder(id, c, 0, T_0500)
          /\ UNCHANGED <<call, watcherVars, dispatchVars, domainVars>>
    \/ \E id \in TrainingIds :
          CancelTrainingReminder(id)
             /\ UNCHANGED <<call, watcherVars, dispatchVars, domainVars>>
    \/ \E id \in TrainingIds, d \in DayConfigs, m \in MessageBuilds :
          FireReminder(id, d, m) /\ UNCHANGED <<call, watcherVars, domainVars>>
    \/ FireWeekly("ok", "ok", <<>>) /\ UNCHANGED <<call, watcherVars, domainVars>>
    \/ \E j \in JobIds, r \in DeliveryResults :
          DeliveryCompletes(j, r) /\ UNCHANGED <<call, watcherVars, domainVars>>
    \/ \E j \in JobIds : FutureTimeout(j) /\ UNCHANGED <<call, watcherVars, domainVars>>
    \/ SecondPasses /\ UNCHANGED <<call, watcherVars, domainVars>>
    \/ \E t \in loop_tasks : LateDelivery(t) /\ UNCHANGED <<call, watcherVars, domainVars>>
    \/ DispatchTick /\ UNCHANGED <<call, watcherVars, dispatchVars, domainVars>>

SpecCancel == Init /\ [][CancelNext]_vars

-----------------------------------------------------------------------------
(* _calculate_reminder_time over every valid time and every offset the
   settings accept *)

CalcHours == 0..23
CalcMinutes == 0..59
CalcOffsets == 5..120      \* reminder_minutes_before: ge=5, le=120

InitCalc ==
    /\ InitProgram
    /\ calc \in {Calc("called", h, m, o, <<0, 0>>) :
                   h \in CalcHours, m \in CalcMinutes, o \in CalcOffsets}

\* the call returns; it reads the setting and writes nothing
CalculateReminderTimeReturns ==
    /\ calc.pc = "called"
    /\ calc' = [calc EXCEPT !.pc = "returned",
                            !.result = CalculateReminderTimeWith(
                                          <<Tok(calc.hour), Tok(calc.minute)>>,
                                          calc.offset)]
    /\ UNCHANGED <<serviceVars, call, watcherVars, dispatchVars, trainings, configVars, threadVars>>

CalcNext == CalculateReminderTimeReturns

SpecCalc == InitCalc /\ [][CalcNext]_vars

-----------------------------------------------------------------------------
(* TrainingService: the trainings of the students and the reminders that
   follow them.  The handlers build the service with the scheduler service
   found in application.bot_data, which is missing when post_init failed
   (the bot goes on without a scheduler) or after post_shutdown. *)

\* the id the database gives a new row: the largest id in use plus one
NewTrainingId(tr) ==
    LET used == {i \in DOMAIN tr : tr[i].exists}
    IN  IF used = {} THEN 1
        ELSE (CHOOSE i \in used : \A j \in used : j <= i) + 1

\* result of a TrainingService operation: tables, job store, what the caller
\* gets ("returned", or the exception that left the method) and the row id
Db(tr, st, pe, ret, id) ==
    [trainings |-> tr, store |-> st, pending |-> pe, ret |-> ret, id |-> id]

\* the try/except around the scheduler calls with the except clause left out
TriedUncaught(raises, r, st, pe) ==
    IF raises THEN Outcome(st, pe, "raised") ELSE r

\* the try/except around the scheduler calls of TrainingService: an exception
\* raised inside (raises) is logged as a warning and the method goes on
Tried(raises, r, st, pe) ==
    IF raises THEN Outcome(st, pe, "") ELSE r

\* add_training: validate the weekday, insert and commit the row, then, with
\* a scheduler service and a student that has a chat_id, schedule the reminder
AddTrainingIn(tr, sch, st, pe, attached, weekday, time_str, chat_id, raises, at) ==
    IF weekday \notin 0..6 THEN Db(tr, st, pe, "ValidationError", 0)
    ELSE LET id == NewTrainingId(tr)
             r == IF attached
                  THEN Tried(raises,
                             IF chat_id # 0
                             THEN ScheduleOutcome(sch, st, pe, id, chat_id,
                                                  weekday, time_str, at)
                             ELSE Outcome(st, pe, ""),
                             st, pe)
                  ELSE Outcome(st, pe, "")
         IN  Db([tr EXCEPT ![id] = Training(weekday, time_str)],
                r.store, r.pending,
                IF r.ret = "raised" THEN "raised" ELSE "returned", id)

\* update_training: RecordNotFoundError without the row; the given fields are
\* written and committed; when day or time changed, with a scheduler service
\* and a chat_id, the reminder is cancelled and scheduled again
UpdateTrainingIn(tr, sch, st, pe, attached, id, weekday, time_str, chat_id, raises, at) ==
    IF ~tr[id].exists THEN Db(tr, st, pe, "RecordNotFoundError", id)
    ELSE LET old == tr[id]
             new == Training(OrElse(weekday, old.weekday),
                             OrElse(time_str, old.time_str))
             r == IF new # old /\ attached
                  THEN Tried(raises,
                             IF chat_id # 0
                             THEN LET c == CancelJob(sch, st, pe, JobId(id))
                                  IN  ScheduleOutcome(sch, c.store, c.pending, id,
                                                      chat_id, new.weekday,
                                                      new.time_str, at)
                             ELSE Outcome(st, pe, ""),
                             st, pe)
                  ELSE Outcome(st, pe, "")
         IN  Db([tr EXCEPT ![id] = new], r.store, r.pending,
                IF r.ret = "raised" THEN "raised" ELSE "returned", id)

\* delete_training: RecordNotFoundError without the row; with a scheduler
\* service the reminder is cancelled; then the row is deleted and committed
DeleteTrainingIn(tr, sch, st, pe, attached, id, raises) ==
    IF ~tr[id].exists THEN Db(tr, st, pe, "RecordNotFoundError", id)
    ELSE LET r == IF attached
                  THEN Tried(raises, CancelJob(sch, st, pe, JobId(id)), st, pe)
                  ELSE Outcome(st, pe, "")
         IN  IF r.ret = "raised" THEN Db(tr, r.store, r.pending, "raised", id)
             ELSE Db([tr EXCEPT ![id] = NoTraining], r.store, r.pending,
                     "returned", id)

RECURSIVE DeleteAllIn(_, _, _, _, _, _)
\* handle_weekly_finish, first loop: delete_training for every existing
\* training of the student
DeleteAllIn(tr, sch, st, pe, attached, ids) ==
    IF ids = {} THEN Db(tr, st, pe, "returned", 0)
    ELSE LET id == CHOOSE i \in ids : \A j \in ids : i <= j
             d == DeleteTrainingIn(tr, sch, st, pe, attached, id, FALSE)
         IN  DeleteAllIn(d.trainings, sch, d.store, d.pending, attached, ids \ {id})

RECURSIVE AddAllIn(_, _, _, _, _, _, _, _)
\* handle_weekly_finish, second loop: add_training for every chosen day
AddAllIn(tr, sch, st, pe, attached, chosen, chat_id, at) ==
    IF chosen = <<>> THEN Db(tr, st, pe, "returned", 0)
    ELSE LET d == AddTrainingIn(tr, sch, st, pe, attached, Head(chosen).day,
                                Head(chosen).time, chat_id, FALSE, at)
         IN  AddAllIn(d.trainings, sch, d.store, d.pending, attached,
                      Tail(chosen), chat_id, at)

\* what the student chose in the weekly configuration dialogue
WeeklyChoices ==
    {<<>>,
     <<[day |-> 0, time |-> T_0500]>>,
     <<[day |-> 0, time |-> T_0500], [day |-> 1, time |-> T_0010]>>}

\* arguments of add_training and update_training
AddWeekdays == {0, 7}
UpdateWeekdays == {None, Some(1), Some(7)}
UpdateTimes == {None, Some(T_0010)}
StudentChatIds == {0, 501}           \* 0: the student has no chat_id

AddTraining(weekday, time_str, chat_id, raises) ==
    /\ weekday \in 0..6 => NewTrainingId(trainings) \in DOMAIN trainings
    /\ LET d == AddTrainingIn(trainings, scheduler, store, pending, bot_data,
                              weekday, time_str, chat_id, raises, now)
       IN  /\ trainings' = d.trainings
           /\ store' = d.store
           /\ pending' = d.pending
           /\ last' = Call("add_training", d.id, weekday, time_str, d.ret,
                           HasJob(JobId(d.id)))
    /\ UNCHANGED <<scheduler, now, config, application, event_loop>>

UpdateTraining(id, weekday, time_str, chat_id, raises) ==
    /\ LET d == UpdateTrainingIn(trainings, scheduler, store, pending, bot_data,
                                 id, weekday, time_str, chat_id, raises, now)
       IN  /\ trainings' = d.trainings
           /\ store' = d.store
           /\ pending' = d.pending
           /\ last' = Call("update_training", id, OrElse(weekday, -1),
                           OrElse(time_str, <<>>), d.ret, trainings[id].exists)
    /\ UNCHANGED <<scheduler, now, config, application, event_loop>>

DeleteTraining(id, raises) ==
    /\ LET d == DeleteTrainingIn(trainings, scheduler, store, pending, bot_data,
                                 id, raises)
       IN  /\ trainings' = d.trainings
           /\ store' = d.store
           /\ pending' = d.pending
           /\ last' = Call("delete_training", id, 0, <<>>, d.ret, trainings[id].exists)
    /\ UNCHANGED <<scheduler, now, config, application, event_loop>>

\* handle_weekly_finish: nothing without a choice; else the student's
\* trainings are deleted and the chosen ones created
HandleWeeklyFinish(chosen) ==
    /\ Len(chosen) <= MaxTrainingId
    /\ LET del == DeleteAllIn(trainings, scheduler, store, pending, bot_data,
                              {i \in DOMAIN trainings : trainings[i].exists})
           d == IF chosen = <<>> THEN Db(trainings, store, pending, "returned", 0)
                ELSE AddAllIn(del.trainings, scheduler, del.store, del.pending,
                              bot_data, chosen, 501, now)
       IN  /\ trainings' = d.trainings
           /\ store' = d.store
           /\ pending' = d.pending
           /\ last' = Call("weekly_finish", Len(chosen), 0, <<>>, d.ret, FALSE)
    /\ UNCHANGED <<scheduler, now, config, application, event_loop>>

\* post_init whose start() raises: the globals are set and the scheduler is
\* created, the exception is logged, the service never reaches bot_data and
\* the bot goes on without it
PostInitFails ==
    /\ scheduler = "none"
    /\ scheduler' = "stopped"
    /\ application' = TRUE
    /\ event_loop' = "running"
    /\ bot_data' = FALSE
    /\ last' = Call("post_init_failed", 0, 0, <<>>, "", FALSE)
    /\ UNCHANGED <<store, pending, now, config>>

\* the handlers run between post_init and post_shutdown
BotUp == application /\ last.op # "post_shutdown"

\* the process ends and a new one starts on the same database: the module
\* globals and the service object are gone, the tables are kept
ProcessRestart ==
    /\ scheduler # "running"
    /\ scheduler' = "none"
    /\ pending' = <<>>
    /\ application' = FALSE
    /\ event_loop' = "none"
    /\ bot_data' = FALSE
    /\ last' = Call("restart", 0, 0, <<>>, "", FALSE)
    /\ UNCHANGED <<store, now, config, trainings>>

DomainNext ==
    \/ PostInit /\ UNCHANGED <<call, last_config_hash, poll, dispatchVars, domainVars>>
    \/ PostShutdown /\ UNCHANGED <<call, last_config_hash, poll, dispatchVars, domainVars>>
    \/ PostInitFails /\ UNCHANGED <<call, last_config_hash, poll, dispatchVars, domainVars>>
    \/ ProcessRestart /\ UNCHANGED <<call, last_config_hash, poll, dispatchVars, calc, configVars, threadVars>>
    \/ \E w \in AddWeekdays, c \in StudentChatIds, raises \in BOOLEAN :
          /\ BotUp
          /\ AddTraining(w, T_0500, c, raises)
          /\ UNCHANGED <<call, watcherVars, dispatchVars, calc, configVars, threadVars>>
    \/ \E id \in DOMAIN trainings, w \in UpdateWeekdays, t \in UpdateTimes,
          raises \in BOOLEAN :
          /\ BotUp
          /\ UpdateTraining(id, w, t, 501, raises)
          /\ UNCHANGED <<call, watcherVars, dispatchVars, calc, configVars, threadVars>>
    \/ \E id \in DOMAIN trainings, raises \in BOOLEAN :
          /\ BotUp
          /\ DeleteTraining(id, raises)
          /\ UNCHANGED <<call, watcherVars, dispatchVars, calc, configVars, threadVars>>
    \/ \E chosen \in WeeklyChoices :
          /\ BotUp
          /\ HandleWeeklyFinish(chosen)
          /\ UNCHANGED <<call, watcherVars, dispatchVars, calc, configVars, threadVars>>
    \/ \E id \in TrainingIds :
          /\ scheduler = "none"
          /\ ScheduleTrainingReminder(id, 501, 0, T_0500)
          /\ UNCHANGED <<call, watcherVars, dispatchVars, domainVars>>
    \/ \E id \in TrainingIds :
          /\ scheduler = "none"
          /\ CancelTrainingReminder(id)
          /\ UNCHANGED <<call, watcherVars, dispatchVars, domainVars>>
    \/ \E id \in TrainingIds :
          /\ scheduler = "none"
          /\ RescheduleTrainingReminder(id, T_0010)
          /\ UNCHANGED <<call, watcherVars, dispatchVars, domainVars>>

SpecDomain == Init /\ [][DomainNext]_vars

-----------------------------------------------------------------------------
(* Downtime *)

\* Downtime: the bot is shut down and started again in a new process while
\* jobs come due; the scheduler finds them late when it starts.
LateMinutes == {1, 2, 6}

\* now is a fire time of the weekly trigger of a stored job
AtFireTime ==
    \E job \in store : \E i \in 1..Len(job.trigger) :
        /\ job.trigger[i].kind = "cron"
        /\ DowNumber(job.trigger[i].dow) = Weekday(now)
        /\ job.trigger[i].hour * 60 + job.trigger[i].minute = now.hm

\* no scheduler runs at a fire time, and stays away d more minutes
Downtime(d) ==
    /\ scheduler # "running"
    /\ AtFireTime
    /\ now' = Instant(now.day, now.hm + d)
    /\ last' = NoCall
    /\ UNCHANGED <<scheduler, store, pending, config, application, event_loop>>

MisfireNext ==
    \/ PostInit /\ UNCHANGED <<call, last_config_hash, poll, dispatchVars, domainVars>>
    \/ /\ \A j \in JobIds : firing[j].pc # "waiting"
       /\ PostShutdown
       /\ UNCHANGED <<call, last_config_hash, poll, dispatchVars, domainVars>>
    \/ ProcessRestart /\ UNCHANGED <<call, last_config_hash, poll, dispatchVars, calc, configVars, threadVars>>
    \/ \E id \in TrainingIds, c \in ChatIds :
          /\ scheduler = "running"
          /\ ~HasJob(JobId(id))
          /\ ScheduleTrainingReminder(id, c, 0, T_0500)
          /\ UNCHANGED <<call, watcherVars, dispatchVars, domainVars>>
    \/ \E id \in TrainingIds :
          FireReminder(id, "ok", "ok") /\ UNCHANGED <<call, watcherVars, domainVars>>
    \/ FireWeekly("ok", "ok", <<>>) /\ UNCHANGED <<call, watcherVars, domainVars>>
    \/ \E j \in JobIds :
          DeliveryCompletes(j, "ok") /\ UNCHANGED <<call, watcherVars, domainVars>>
    \/ \E d \in LateMinutes :
          Downtime(d) /\ UNCHANGED <<call, watcherVars, dispatchVars, domainVars>>
    \/ DispatchTick /\ UNCHANGED <<call, watcherVars, dispatchVars, domainVars>>

SpecMisfire == Init /\ [][MisfireNext]_vars

-----------------------------------------------------------------------------
(* A firing that outlasts the minute: the delivery is slow and the timeout
   is long enough (here TaskFutureTimeout counts minutes), so the job can
   come due again while its task function still waits *)

\* the clock reaches the next minute while firings wait for their delivery
MinutePasses ==
    /\ \E j \in JobIds : firing[j].pc = "waiting"
    /\ \A j \in JobIds : firing[j].pc = "waiting" => firing[j].waited < TaskFutureTimeout
    /\ \A j \in JobIds : ~DueJob(j)
    /\ firing' = [j \in JobIds |->
                    IF firing[j].pc = "waiting"
                    THEN [firing[j] EXCEPT !.waited = firing[j].waited + 1]
                    ELSE firing[j]]
    /\ now' = Instant(now.day, now.hm + 1)
    /\ last' = NoCall
    /\ UNCHANGED <<scheduler, store, pending, config, application, event_loop,
                   finished, loop_tasks, instances, lookup>>

\* The reminder of training 1 is scheduled for 05:00 and moved to 05:01 at
\* any moment, also while a firing of it waits.
InstancesNext ==
    \/ PostInit /\ UNCHANGED <<call, last_config_hash, poll, dispatchVars, domainVars>>
    \/ \E id \in TrainingIds, c \in ChatIds, t \in {T_0500, T_0501} :
          /\ scheduler = "running"
          /\ ScheduleTrainingReminder(id, c, 0, t)
          /\ UNCHANGED <<call, watcherVars, dispatchVars, domainVars>>
    \/ \E id \in TrainingIds :
          FireReminder(id, "ok", "ok") /\ UNCHANGED <<call, watcherVars, domainVars>>
    \/ FireWeekly("ok", "ok", <<>>) /\ UNCHANGED <<call, watcherVars, domainVars>>
    \/ \E j \in JobIds, r \in DeliveryResults :
          DeliveryCompletes(j, r) /\ UNCHANGED <<call, watcherVars, domainVars>>
    \/ \E j \in JobIds : FutureTimeout(j) /\ UNCHANGED <<call, watcherVars, domainVars>>
    \/ MinutePasses /\ UNCHANGED <<call, watcherVars, domainVars>>
    \/ \E t \in loop_tasks : LateDelivery(t) /\ UNCHANGED <<call, watcherVars, domainVars>>
    \/ DispatchTick /\ UNCHANGED <<call, watcherVars, dispatchVars, domainVars>>

SpecInstances == Init /\ [][InstancesNext]_vars

-----------------------------------------------------------------------------
(* schedule_training_reminder called from two threads at once.  Each call of
   the scheduler library (get_job, remove_job, add_job) is atomic under the
   scheduler's lock; the threads interleave between them. *)

ThreadWeekdays == {0, 1, 7}

\* a thread enters schedule_training_reminder; without a scheduler it
\* returns "" at once
ThreadCalls(t, training_id, chat_id, weekday, training_time) ==
    /\ threads[t].pc \in {"idle", "done"}
    /\ threads' = [threads EXCEPT ![t] =
          IF scheduler = "none"
          THEN ThreadCall("done", training_id, chat_id, weekday, training_time, FALSE, now, "")
          ELSE ThreadCall("get_job", training_id, chat_id, weekday, training_time, FALSE,
                          NoInstant, "none")]
    /\ UNCHANGED serviceVars

\* _cancel_job: job = self.scheduler.get_job(job_id)
ThreadGetsJob(t) ==
    /\ threads[t].pc = "get_job"
    /\ LET seen == HasJob(JobId(threads[t].training_id))
       IN  threads' = [threads EXCEPT ![t].seen = seen,
                                      ![t].pc = IF seen THEN "remove_job" ELSE "add_job"]
    /\ UNCHANGED serviceVars

\* _cancel_job: self.scheduler.remove_job(job_id); the JobLookupError of a job
\* that is gone by now is caught there
ThreadRemovesJob(t) ==
    /\ threads[t].pc = "remove_job"
    /\ LET job_id == JobId(threads[t].training_id)
           r == IF HasJob(job_id) THEN RemoveJobIn(scheduler, store, pending, job_id)
                ELSE [store |-> store, pending |-> pending]
       IN  /\ store' = r.store
           /\ pending' = r.pending
    /\ threads' = [threads EXCEPT ![t].pc = "add_job"]
    /\ UNCHANGED <<scheduler, now, config, application, event_loop, last>>

\* the rest of schedule_training_reminder: the triggers from the clock, add_job
ThreadAddsJob(t) ==
    /\ threads[t].pc = "add_job"
    /\ LET c == threads[t]
           r == AddReminderJob(scheduler, store, pending, c.training_id, c.chat_id,
                               c.weekday, c.training_time, now)
       IN  /\ store' = r.store
           /\ pending' = r.pending
           /\ threads' = [threads EXCEPT ![t].pc = "done", ![t].at = now, ![t].ret = r.ret]
           /\ last' = Call("schedule", c.training_id, c.weekday, c.training_time, r.ret, c.seen)
    /\ UNCHANGED <<scheduler, now, config, application, event_loop>>

ThreadsNext ==
    \/ PostInit /\ UNCHANGED <<call, last_config_hash, poll, dispatchVars, trainings, calc,
                               configVars, threadVars>>
    \/ \E t \in Threads, w \in ThreadWeekdays, tt \in ValidTimes :
          ThreadCalls(t, 1, 501, w, tt)
            /\ UNCHANGED <<call, watcherVars, dispatchVars, trainings, calc, configVars>>
    \/ \E t \in Threads :
          ThreadGetsJob(t)
            /\ UNCHANGED <<call, watcherVars, dispatchVars, trainings, calc, configVars>>
    \/ \E t \in Threads :
          ThreadRemovesJob(t)
            /\ UNCHANGED <<call, watcherVars, dispatchVars, trainings, calc, configVars>>
    \/ \E t \in Threads :
          ThreadAddsJob(t)
            /\ UNCHANGED <<call, watcherVars, dispatchVars, trainings, calc, configVars>>
    \/ Tick /\ UNCHANGED <<call, watcherVars, dispatchVars, domainVars>>

SpecThreads == Init /\ [][ThreadsNext]_vars

-----------------------------------------------------------------------------
(* The weekly training configuration: one row of training_day_configs per
   weekday, written by configure_day from the /config_semana conversation of
   the bot and from the API, each inside its own get_db_context()
   transaction. *)

days_names == <<"Lunes", "Martes", "Miércoles", "Jueves", "Viernes", "Sábado", "Domingo">>

DAYS_SPANISH ==
    [name \in {days_names[i] : i \in 1..Len(days_names)} |->
        (CHOOSE i \in 0..(Len(days_names) - 1) : days_names[i + 1] = name)]

SESSION_TYPES == <<"Pierna", "Funcional", "Brazo", "Espalda", "Pecho", "Hombros">>

\* str.lower() over the texts of the model
Lower(text) ==
    CASE text = "Pierna" -> "pierna"
      [] text = "Funcional" -> "funcional"
      [] text = "Brazo" -> "brazo"
      [] text = "Espalda" -> "espalda"
      [] text = "Pecho" -> "pecho"
      [] text = "Hombros" -> "hombros"
      [] text = "Yoga" -> "yoga"
      [] OTHER -> text

\* bool(text)
Truthy(text) == text # ""

\* the id the table gives the next inserted row
NewConfigId(rows) ==
    IF rows = {} THEN 1
    ELSE (CHOOSE r \in rows : \A q \in rows : q.id <= r.id).id + 1

\* validation of configure_day; the weekday is an int in the model
ConfigureDayValidates(weekday, session_type, location) ==
    IF weekday < 0 \/ weekday > 6 THEN "ValidationError"
    ELSE IF ~Truthy(session_type) THEN "ValidationError"
    ELSE IF ~Truthy(location) THEN "ValidationError"
    ELSE "ok"

\* the SELECT of update_by_weekday: the id of the weekday's row, 0 without one.
\* with_for_update() is ignored by SQLite, the default database, so the
\* SELECT never waits for another transaction.
SelectByWeekday(rows, weekday) ==
    IF \E r \in rows : r.weekday = weekday
    THEN (CHOOSE r \in rows :
             /\ r.weekday = weekday
             /\ \A q \in rows : q.weekday = weekday => r.id <= q.id).id
    ELSE 0

\* a table without the unique constraint on weekday
UniqueWeekdayDropped(rows, weekday) == FALSE

\* the unique constraint of the column weekday refuses a second row
UniqueWeekdayViolated(rows, weekday) == \E r \in rows : r.weekday = weekday

\* the commit get_db_context() makes on leaving the block: the INSERT or the
\* UPDATE that update_by_weekday prepared reaches the table, or the
\* transaction is rolled back and the error raised
CommitIn(rows, t) ==
    IF t.found = 0
    THEN IF UniqueWeekdayViolated(rows, t.weekday)
         THEN [rows |-> rows, ret |-> "IntegrityError"]
         ELSE [rows |-> rows \cup
                        {TrainingDayConfig(NewConfigId(rows), t.weekday,
                                           days_names[t.weekday + 1],
                                           t.session_type, t.location,
                                           Truthy(t.session_type) /\ Truthy(t.location))},
               ret |-> "ok"]
    ELSE [rows |-> {IF r.id = t.found
                    THEN [r EXCEPT !.session_type = t.session_type,
                                   !.location = t.location,
                                   !.is_active = Truthy(t.session_type) /\ Truthy(t.location)]
                    ELSE r : r \in rows},
          ret |-> "ok"]

\* configure_day inside get_db_context() with no other transaction in between
ConfigureDayIn(rows, weekday, session_type, location) ==
    IF ConfigureDayValidates(weekday, session_type, location) # "ok"
    THEN [rows |-> rows, ret |-> "ValidationError"]
    ELSE CommitIn(rows, Tx("queried", weekday, session_type, location,
                           SelectByWeekday(rows, weekday), "none"))

\* LocationValidator.validate: the lengths are those of the texts, the
\* character class is decided per text of the model
MIN_LENGTH == 3
MAX_LENGTH == 100
AllowedChars(text) == text \notin {"Piso #2"}

LocationValid(text) ==
    /\ Truthy(text)
    /\ Len(text) >= MIN_LENGTH
    /\ Len(text) <= MAX_LENGTH
    /\ AllowedChars(text)

\* what the trainer sends
DayTexts == {"Lunes", "Martes", "Salir", "Lunez"}
TypeTexts == {"Pierna", "funcional", "Yoga"}
LocationTexts == {"2do Piso", "ab", "Piso #2"}
Answers == {"Sí", "No", "Quizás"}
DbResults == {"ok", "raises"}

\* /config_semana outside a conversation
ConfigTrainingStart ==
    /\ conv.state = END
    /\ conv' = Conv(SELECT_DAY, conv.data, END, "config_training_start", "/config_semana")
    /\ UNCHANGED <<day_configs, tx>>

\* _finalize_config ends the conversation whether the summary was read or not
FinalizeConfig == END

ConfigTrainingSelectDay(day_text) ==
    /\ conv.state = SELECT_DAY
    /\ conv' =
         IF day_text = "Salir"
         THEN Conv(FinalizeConfig, conv.data, SELECT_DAY, "config_training_select_day", day_text)
         ELSE IF day_text \notin DOMAIN DAYS_SPANISH
         THEN Conv(SELECT_DAY, conv.data, SELECT_DAY, "config_training_select_day", day_text)
         ELSE Conv(SELECT_SESSION_TYPE,
                   ConfigTrainingState(DAYS_SPANISH[day_text], day_text, "", ""),
                   SELECT_DAY, "config_training_select_day", day_text)
    /\ UNCHANGED <<day_configs, tx>>

\* the entry of SESSION_TYPES the text names, whatever its capitalisation
Normalised(session_type) ==
    SESSION_TYPES[CHOOSE i \in 1..Len(SESSION_TYPES) :
                     /\ Lower(SESSION_TYPES[i]) = Lower(session_type)
                     /\ \A k \in 1..(i - 1) : Lower(SESSION_TYPES[k]) # Lower(session_type)]

ConfigTrainingSelectType(session_type) ==
    /\ conv.state = SELECT_SESSION_TYPE
    /\ conv' =
         IF \A i \in 1..Len(SESSION_TYPES) :
               /\ SESSION_TYPES[i] # session_type
               /\ Lower(SESSION_TYPES[i]) # Lower(session_type)
         THEN Conv(SELECT_SESSION_TYPE, conv.data, SELECT_SESSION_TYPE,
                   "config_training_select_type", session_type)
         ELSE IF ~conv.data.exists
         THEN Conv(END, conv.data, SELECT_SESSION_TYPE,
                   "config_training_select_type", session_type)
         ELSE Conv(SELECT_LOCATION,
                   ConfigTrainingState(conv.data.weekday, conv.data.weekday_name,
                                       Normalised(session_type), ""),
                   SELECT_SESSION_TYPE, "config_training_select_type", session_type)
    /\ UNCHANGED <<day_configs, tx>>

ConfigTrainingSelectLocation(location_input) ==
    /\ conv.state = SELECT_LOCATION
    /\ conv' =
         IF ~LocationValid(location_input)
         THEN Conv(SELECT_LOCATION, conv.data, SELECT_LOCATION,
                   "config_training_select_location", location_input)
         ELSE IF ~conv.data.exists
         THEN Conv(END, conv.data, SELECT_LOCATION,
                   "config_training_select_location", location_input)
         ELSE Conv(CONFIRM_DATA,
                   ConfigTrainingState(conv.data.weekday, conv.data.weekday_name,
                                       conv.data.session_type, location_input),
                   SELECT_LOCATION, "config_training_select_location", location_input)
    /\ UNCHANGED <<day_configs, tx>>

\* db: whether the storage session of the handler works ("raises": a
\* DatabaseError or any other exception out of get_db_context())
ConfigTrainingConfirm(response, db) ==
    /\ conv.state = CONFIRM_DATA
    /\ LET here(state, data) == Conv(state, data, CONFIRM_DATA, "config_training_confirm", response)
           r == ConfigureDayIn(day_configs, conv.data.weekday, conv.data.session_type,
                               conv.data.location)
       IN  IF response = "Sí"
           THEN IF ~conv.data.exists
                THEN conv' = here(END, conv.data) /\ UNCHANGED day_configs
                ELSE IF db = "raises"
                THEN conv' = here(END, conv.data) /\ UNCHANGED day_configs
                ELSE IF r.ret = "ok"
                THEN conv' = here(CONFIRM_CONTINUE, NoState) /\ day_configs' = r.rows
                ELSE IF r.ret = "ValidationError"
                THEN conv' = here(END, NoState) /\ UNCHANGED day_configs
                ELSE conv' = here(END, conv.data) /\ UNCHANGED day_configs
           ELSE IF response = "No"
           THEN conv' = here(SELECT_DAY, conv.data) /\ UNCHANGED day_configs
           ELSE conv' = here(CONFIRM_CONTINUE, conv.data) /\ UNCHANGED day_configs
    /\ UNCHANGED tx

ConfigTrainingContinue(response) ==
    /\ conv.state = CONFIRM_CONTINUE
    /\ conv' =
         IF response = "Sí"
         THEN Conv(SELECT_DAY, conv.data, CONFIRM_CONTINUE, "config_training_continue", response)
         ELSE IF response = "No"
         THEN Conv(FinalizeConfig, conv.data, CONFIRM_CONTINUE, "config_training_continue", response)
         ELSE Conv(CONFIRM_CONTINUE, conv.data, CONFIRM_CONTINUE,
                   "config_training_continue", response)
    /\ UNCHANGED <<day_configs, tx>>

\* /cancelar inside the conversation
ConfigTrainingCancel ==
    /\ conv.state # END
    /\ conv' = Conv(END, NoState, conv.state, "config_training_cancel", "/cancelar")
    /\ UNCHANGED <<day_configs, tx>>

ConversationNext ==
    \/ ConfigTrainingStart /\ UNCHANGED <<serviceVars, call, watcherVars, dispatchVars, trainings, calc, threadVars>>
    \/ \E t \in DayTexts :
          ConfigTrainingSelectDay(t)
            /\ UNCHANGED <<serviceVars, call, watcherVars, dispatchVars, trainings, calc, threadVars>>
    \/ \E t \in TypeTexts :
          ConfigTrainingSelectType(t)
            /\ UNCHANGED <<serviceVars, call, watcherVars, dispatchVars, trainings, calc, threadVars>>
    \/ \E t \in LocationTexts :
          ConfigTrainingSelectLocation(t)
            /\ UNCHANGED <<serviceVars, call, watcherVars, dispatchVars, trainings, calc, threadVars>>
    \/ \E t \in Answers, db \in DbResults :
          ConfigTrainingConfirm(t, db)
            /\ UNCHANGED <<serviceVars, call, watcherVars, dispatchVars, trainings, calc, threadVars>>
    \/ \E t \in Answers :
          ConfigTrainingContinue(t)
            /\ UNCHANGED <<serviceVars, call, watcherVars, dispatchVars, trainings, calc, threadVars>>
    \/ ConfigTrainingCancel /\ UNCHANGED <<serviceVars, call, watcherVars, dispatchVars, trainings, calc, threadVars>>

SpecConversation == Init /\ [][ConversationNext]_vars

\* configure_day of several callers at once: each caller's SELECT and its
\* commit are separate steps, and the other caller may act between them
ConfigWeekdays == {-1, 0, 1}
ConfigTypes == {"Pierna", "Funcional"}
ConfigLocations == {"2do Piso", "4to Piso"}

ConfigureDayBegins(c, weekday, session_type, location) ==
    /\ tx[c].pc = "idle"
    /\ tx' = [tx EXCEPT ![c] =
                IF ConfigureDayValidates(weekday, session_type, location) # "ok"
                THEN Tx("idle", weekday, session_type, location, 0, "ValidationError")
                ELSE Tx("queried", weekday, session_type, location,
                        SelectByWeekday(day_configs, weekday), "none")]
    /\ UNCHANGED <<conv, day_configs>>

ConfigureDayCommits(c) ==
    /\ tx[c].pc = "queried"
    /\ LET r == CommitIn(day_configs, tx[c])
       IN  /\ day_configs' = r.rows
           /\ tx' = [tx EXCEPT ![c].pc = "idle", ![c].ret = r.ret]
    /\ UNCHANGED conv

ConfigureNext ==
    \/ \E c \in Callers, w \in ConfigWeekdays, st \in ConfigTypes, loc \in ConfigLocations :
          ConfigureDayBegins(c, w, st, loc)
            /\ UNCHANGED <<serviceVars, call, watcherVars, dispatchVars, trainings, calc, threadVars>>
    \/ \E c \in Callers :
          ConfigureDayCommits(c)
            /\ UNCHANGED <<serviceVars, call, watcherVars, dispatchVars, trainings, calc, threadVars>>

SpecConfigure == Init /\ [][ConfigureNext]_vars

-----------------------------------------------------------------------------
(* Properties of the job lifecycle *)

ValidWeekday(w) == w \in 0..6

ValidHHMM(t) ==
    /\ Len(t) = 2
    /\ t[1].digits /\ t[1].val \in 0..23
    /\ t[2].digits /\ t[2].val \in 0..59

\* the reminder time-of-day of a valid training time, in minutes
ReminderMinute(t) == (t[1].val * 60 + t[2].val - ReminderMinutesBefore) % 1440

\* the triggers the claim expects for weekday w, reminder minute rm, at `at`
ExpectedTriggers(w, rm, at) ==
    IF Weekday(at) = w /\ rm > at.hm
    THEN <<DateTrigger(at.day, rm \div 60, rm % 60),
           CronTrigger(weekday_names[w + 1], rm \div 60, rm % 60)>>
    ELSE <<CronTrigger(weekday_names[w + 1], rm \div 60, rm % 60)>>

Monday0400 == Instant(0, 240)
Monday0430 == Instant(0, 270)
Monday0445 == Instant(0, 285)

\* C1: a successful schedule_training_reminder for a training weekday W stores
\* two triggers (one-shot today at the reminder time, then the weekly one)
\* when today is W and today's reminder time is strictly later than now, and
\* the weekly trigger alone in every other case; Monday 05:00 with offset 30
\* gives two triggers at Monday 04:00 and one at Monday 04:30 and 04:45.
C1_TwoTriggersIffTodayAndLater ==
    /\ (last.op = "schedule" /\ last.ret # "" /\ ValidWeekday(last.weekday)
            /\ ValidHHMM(last.time))
        => GetJob(JobId(last.id)).trigger
             = ExpectedTriggers(last.weekday, ReminderMinute(last.time), now)
    /\ (last.op = "schedule" /\ last.ret # "" /\ last.weekday = 0
            /\ last.time = T_0500)
        => /\ now = Monday0400 =>
                GetJob(JobId(last.id)).trigger
                  = <<DateTrigger(0, 4, 30), CronTrigger("mon", 4, 30)>>
           /\ now \in {Monday0430, Monday0445} =>
                GetJob(JobId(last.id)).trigger = <<CronTrigger("mon", 4, 30)>>

\* C1 witness: Monday 05:00 scheduled on Monday at 04:00 holds both triggers
C1_Witness ==
    /\ last.op = "schedule" /\ last.ret = JobId(1)
    /\ last.weekday = 0 /\ last.time = T_0500 /\ now = Monday0400
    /\ Len(GetJob(JobId(1)).trigger) = 2

JobsWithId(job_id) ==
    IF scheduler = "running" THEN Cardinality({j \in store : j.id = job_id})
    ELSE Cardinality({i \in 1..Len(pending) : pending[i].id = job_id})

\* C2: the jobs of the scheduler never hold two jobs under one id, and after
\* a successful schedule_training_reminder the one job under the training's
\* id carries the triggers and arguments of that call.
C2_OneJobPerId ==
    /\ \A j1 \in store, j2 \in store : j1.id = j2.id => j1 = j2
    /\ \A i \in 1..Len(pending), k \in 1..Len(pending) :
          pending[i].id = pending[k].id => i = k
    /\ (last.op = "schedule" /\ last.ret # "")
        => /\ JobsWithId(JobId(last.id)) = 1
           /\ GetJob(JobId(last.id)).args.weekday = last.weekday
           /\ GetJob(JobId(last.id)).args.training_time = last.time
           /\ ValidWeekday(last.weekday) /\ ValidHHMM(last.time)
                => GetJob(JobId(last.id)).trigger
                     = ExpectedTriggers(last.weekday, ReminderMinute(last.time), now)

\* C2 witness: a second schedule call for a training that already had a job
C2_Witness ==
    /\ last.op = "schedule" /\ last.had /\ last.ret = JobId(last.id)
    /\ JobsWithId(JobId(last.id)) = 1

\* C3 as claimed: reschedule_training_reminder on an existing job reports
\* success and leaves the trigger set a fresh schedule_training_reminder call
\* with the job's weekday, the new time and the same now would store.
C3_RescheduleEqualsFreshSchedule ==
    (last.op = "reschedule" /\ last.had /\ ValidHHMM(last.time))
        => /\ last.ret = "True"
           /\ LET job == GetJob(JobId(last.id))
                  rt == CalculateReminderTime(last.time)
              IN  job.trigger = ComposeTriggers(job.args.weekday,
                                                PyIndex(weekday_names, job.args.weekday).v,
                                                rt[1], rt[2], now)

\* C4: cancel_training_reminder for a training without a job returns False
\* and changes neither the store nor the pending jobs; so does a second
\* cancel right after a successful one, and a cancel without a scheduler.
C4_CancelAbsentIsNoOp ==
    [][(last'.op = "cancel" /\ ~last'.had)
          => (last'.ret = "False" /\ store' = store /\ pending' = pending)]_vars

\* C4 witness: the second of two cancels in a row, the first having removed
\* the job, returned False
C4_Witness ==
    /\ last.op = "cancel" /\ last.again /\ ~last.had /\ last.ret = "False"
    /\ scheduler = "running"

\* C10 as claimed: schedule_training_reminder with a weekday outside 0..6 or
\* a training time that is no valid HH:MM returns the error value and leaves
\* no job for the training.
C10_InvalidInputRejected ==
    (last.op = "schedule" /\ scheduler # "none"
        /\ (~ValidWeekday(last.weekday) \/ ~ValidHHMM(last.time)))
        => (last.ret = "" /\ ~HasJob(JobId(last.id)))

\* C9 as claimed: while a reminder that had a job is being rescheduled (by
\* update_training or by a second schedule_training_reminder call), every
\* state another thread can see holds a job for the training.
C9_NoStateWithoutJob ==
    (call.pc # "idle" /\ call.had) => HasJob(JobId(call.id))

\* C28: after any sequence of schedule_training_reminder and
\* reschedule_training_reminder calls the training time in a reminder job's
\* arguments agrees with its trigger: the weekly trigger's time is the stored
\* training time minus the offset.
C28_ArgsTimeAgreesWithTrigger ==
    \A job \in VisibleJobs(scheduler, store, pending) :
        (job.id # WeeklyJobId /\ ValidHHMM(job.args.training_time))
          => LET cron == job.trigger[Len(job.trigger)]
             IN  /\ cron.kind = "cron"
                 /\ cron.hour * 60 + cron.minute = ReminderMinute(job.args.training_time)

\* C27: a schedule_training_reminder call that fails (returns the empty id)
\* leaves the job store, and the jobs pending for it, exactly as they were
\* before the call.
C27_FailedScheduleLeavesStore ==
    [][(last' # last /\ last'.op = "schedule" /\ last'.ret = "")
          => store' = store /\ pending' = pending
      ]_vars

\* C17: when subtracting the offset crosses midnight (the training's minutes
\* of the day are fewer than the offset, as for 00:10 with offset 30) the
\* reminder is rolled onto the previous calendar day: the weekly trigger of
\* the stored job fires on weekday (training weekday - 1) mod 7, at the
\* reminder time, so that the firing precedes the training by the offset.
C17_MidnightWrapRollsToPreviousDay ==
    (/\ last.op = "schedule"
     /\ last.ret = JobId(last.id)
     /\ ValidWeekday(last.weekday)
     /\ ValidHHMM(last.time)
     /\ last.time[1].val * 60 + last.time[2].val < ReminderMinutesBefore
     /\ HasJob(JobId(last.id)))
        => LET job == GetJob(JobId(last.id))
               cron == job.trigger[Len(job.trigger)]
           IN  /\ cron.kind = "cron"
               /\ cron.hour * 60 + cron.minute = ReminderMinute(last.time)
               /\ cron.dow = weekday_names[((last.weekday - 1) % 7) + 1]

-----------------------------------------------------------------------------
(* Properties of the watcher *)

\* C5: a poll that read the config calls reschedule_weekly_reminder exactly
\* once if a fingerprint was stored before it and one of the five fields
\* differs from what the previous poll read, and not at all otherwise (the
\* first poll, and a poll that reads the same five values).
C5_RescheduleOnceIffChanged ==
    poll.read => poll.calls = (IF poll.stored /\ poll.changed THEN 1 ELSE 0)

\* C6: after a poll that found an active config whose day, hour or minute
\* differs from what the previous poll read, exactly one job is held under
\* the broadcast id, its only trigger is the weekly trigger of the new
\* config, and the stored fingerprint is that of the new config.
C6_PollInstallsNewWeeklyTrigger ==
    (last.op = "poll" /\ poll.read /\ poll.stored /\ poll.moved /\ poll.seen.is_active)
        => /\ JobsWithId(WeeklyJobId) = 1
           /\ GetJob(WeeklyJobId).trigger
                = <<CronTrigger(weekday_names[poll.seen.send_day + 1],
                                poll.seen.send_hour, poll.seen.send_minute)>>
           /\ last_config_hash = ConfigHash(poll.seen)

\* C14: when the broadcast config has gone from active to inactive and
\* reschedule_weekly_reminder next runs (here: called by a watcher poll that
\* saw the change), the broadcast job is removed: afterwards the store holds
\* no job under the broadcast id.
C14_DeactivationRemovesBroadcastJob ==
    (/\ last.op = "poll"
     /\ poll.calls = 1
     /\ ~poll.seen.is_active
     /\ scheduler = "running")
        => ~\E j \in store : j.id = WeeklyJobId

\* C23: a watcher poll that replaces the stored fingerprint by a different
\* value has called reschedule_weekly_reminder in that same poll.
C23_FingerprintReplacedOnlyWithReschedule ==
    [][(last_config_hash # "None" /\ last_config_hash' # last_config_hash)
          => /\ last'.op = "poll"
             /\ poll'.calls = 1
      ]_vars

\* C20: once the scheduler has been started the watcher poll
\* check_config_changes is executed repeatedly at a fixed interval (so that a
\* changed broadcast config is picked up without a restart): the running
\* scheduler holds a job that calls it.
C20_WatcherPollIsScheduled ==
    scheduler = "running"
      => \E job \in store : JobFunc(job) = "ConfigWatcherTask.check_config_changes"

-----------------------------------------------------------------------------
(* Properties of the dispatch *)

\* C7: a reminder firing whose delivery does not complete within the timeout
\* ends as TimedOut with send_reminder_sync returning False; the worker has
\* waited exactly the timeout and never longer, it is released (the firing
\* is over), and the delivery was submitted once and never again.
C7_TimeoutEndsFiringWithoutRetry ==
    \A id \in TrainingIds :
        LET f == firing[JobId(id)]
        IN  /\ f.submits <= 1
            /\ f.waited <= TaskFutureTimeout
            /\ f.outcome = "TimedOut"
                 => /\ f.pc = "done"
                    /\ f.ret = "False"
                    /\ f.waited = TaskFutureTimeout
                    /\ f.submits = 1

\* C7 witness: a reminder firing has timed out and the scheduler has then
\* fired the next due job, the broadcast
C7_Witness ==
    \E id \in TrainingIds :
        /\ firing[JobId(id)].outcome = "TimedOut"
        /\ firing[WeeklyJobId].prior = Fired(JobId(id), "TimedOut")
        /\ firing[WeeklyJobId].pc # "idle"

\* C8: no firing ends by raising: a firing that failed (the delivery raised,
\* bot or event loop missing or not running, the message could not be built)
\* or timed out has returned False, and its job is still scheduled with a
\* next run time, so later firings take place.
C8_FiringNeverRaises ==
    \A j \in JobIds :
        /\ firing[j].ret \in {"none", "True", "False"}
        /\ firing[j].outcome \in {"Failed", "TimedOut"} => firing[j].ret = "False"
        /\ (firing[j].pc = "done" /\ scheduler = "running")
             => \E job \in store : job.id = j /\ job.next # NoInstant

\* C8 witness: a job whose firing failed has fired again
C8_Witness ==
    \E j \in JobIds :
        /\ firing[j].prior = Fired(j, "Failed")
        /\ firing[j].pc # "idle"

-----------------------------------------------------------------------------
(* Properties of the trainings and their reminders *)

\* C11: a scheduling failure never fails the domain operation.  A schedule,
\* cancel or reschedule call on a service whose scheduler is not initialized
\* returns "" or False and leaves the job store as it was; add_training with
\* a valid weekday returns the training and the row is in the table,
\* update_training of an existing training returns it with the edit written,
\* and delete_training of an existing training removes the row, whether or
\* not the scheduler call inside failed.
C11_SchedulingFailureNeverFailsOperation ==
    [][/\ (scheduler = "none" /\ last'.op \in {"schedule", "cancel", "reschedule"})
            => /\ store' = store
               /\ last'.ret \in {"", "False"}
       /\ (last'.op = "add_training" /\ last'.weekday \in 0..6)
            => /\ last'.ret = "returned"
               /\ trainings'[last'.id] = Training(last'.weekday, last'.time)
       /\ (last'.op = "update_training" /\ last'.had)
            => /\ last'.ret = "returned"
               /\ trainings'[last'.id] =
                    Training(IF last'.weekday = -1 THEN trainings[last'.id].weekday
                             ELSE last'.weekday,
                             IF last'.time = <<>> THEN trainings[last'.id].time_str
                             ELSE last'.time)
       /\ (last'.op = "delete_training" /\ last'.had)
            => /\ last'.ret = "returned"
               /\ ~trainings'[last'.id].exists
      ]_vars

\* delete_training has returned with the service attached and the job of the
\* training still stored: its cancel call failed, the row is gone
C11_Witness ==
    /\ last.op = "delete_training"
    /\ last.ret = "returned"
    /\ bot_data
    /\ ~trainings[last.id].exists
    /\ \E j \in store : j.id = JobId(last.id)

-----------------------------------------------------------------------------
(* Properties of cancellation during dispatch *)

\* the scheduler holds a job under this id, stored or pending
Held(job_id) ==
    \/ \E k \in store : k.id = job_id
    \/ \E i \in 1..Len(pending) : pending[i].id = job_id

\* C13: after cancel_training_reminder(id) has returned True no new firing of
\* the job begins unless the reminder is scheduled again, and a firing that
\* was waiting when the cancel happened goes on.  Step by step: a cancel that
\* returns True leaves no job under the id and leaves every firing as it is;
\* a firing begins only for a job that is in the store; and a job comes to
\* be held under the id only by a schedule call.
C13_CancelStopsNewFirings ==
    [][\A id \in TrainingIds :
          LET j == JobId(id)
          IN  /\ (last' # last /\ last'.op = "cancel" /\ last'.id = id
                    /\ last'.ret = "True")
                   => /\ ~Held(j)'
                      /\ firing' = firing
                      /\ loop_tasks' = loop_tasks
              /\ (firing'[j] # firing[j] /\ firing[j].pc # "waiting")
                   => \E k \in store : k.id = j
              /\ (~Held(j) /\ Held(j)')
                   => last'.op = "schedule" /\ last'.ret = j
      ]_vars

\* the cancel has returned True and removed the job while a firing of it is
\* waiting for its delivery (no firing begins without the job, so this one
\* began before the cancel)
C13_Witness ==
    /\ last.op = "cancel"
    /\ last.ret = "True"
    /\ last.had
    /\ ~Held(JobId(1))
    /\ firing[JobId(1)].pc = "waiting"
    /\ firing[JobId(1)].waited > 0

\* C15: after any sequence of add_training, update_training and
\* delete_training (and of weekly reconfigurations) every training reminder
\* job in the store belongs to a training that still exists; in particular
\* the store holds no job for a training delete_training has deleted.
C15_EveryJobHasItsTraining ==
    \A j \in store :
        j.id # WeeklyJobId
          => \E id \in DOMAIN trainings : trainings[id].exists /\ j.id = JobId(id)

-----------------------------------------------------------------------------
(* Properties of the reminder time *)

\* C16: for every training time with hour in 0..23 and minute in 0..59 and
\* every offset in 5..120, _calculate_reminder_time returns (h', m') with
\* 0 <= h' <= 23, 0 <= m' <= 59 and h'*60 + m' = (hour*60 + minute - offset)
\* mod 1440; 05:00 with offset 30 gives 04:30.
C16_ReminderTimeIsTimeMinusOffset ==
    calc.pc = "returned"
      => /\ calc.result[1] \in 0..23
         /\ calc.result[2] \in 0..59
         /\ calc.result[1] * 60 + calc.result[2]
              = (calc.hour * 60 + calc.minute - calc.offset) % 1440
         /\ (calc.hour = 5 /\ calc.minute = 0 /\ calc.offset = 30)
              => calc.result = <<4, 30>>

\* 00:10 with offset 30 has returned 23:40
C16_Witness ==
    /\ calc.pc = "returned"
    /\ calc.hour = 0 /\ calc.minute = 10 /\ calc.offset = 30
    /\ calc.result = <<23, 40>>

-----------------------------------------------------------------------------
(* Properties of late firings *)

\* C18: a firing that is detected late is executed only if it is late by no
\* more than the job's misfire grace window, 60 seconds for a training
\* reminder job and 300 seconds for the broadcast job; and however many fire
\* times were missed, the job is run once and then waits for a fire time
\* after now.
C18_LateFiringWithinGrace ==
    [][\A j \in JobIds :
          (/\ firing'[j] # firing[j]
           /\ firing[j].pc # "waiting"
           /\ \E job \in store : job.id = j)
             => LET job == CHOOSE k \in store : k.id = j
                    grace == IF j = WeeklyJobId THEN MisfireGraceSeconds
                             ELSE DefaultMisfireGraceSeconds
                IN  /\ firing'[j].outcome # "Missed" => Lateness(job) <= grace
                    /\ firing'[j].outcome = "Missed" => Lateness(job) > grace
                    /\ \A k \in store' :
                          k.id = j => Minutes(k.next) > Minutes(now)
      ]_vars

-----------------------------------------------------------------------------
(* Properties of concurrent firings *)

\* C19: for every job id at most one execution of the job is in progress at
\* any time: when a trigger of the job comes due while an earlier firing of
\* it still waits for its delivery, no second execution is started.
C19_AtMostOneInstancePerJob ==
    \A j \in JobIds :
        /\ instances[j] <= 1
        /\ instances[j] = 1 <=> firing[j].pc = "waiting"

\* the reminder came due again at 04:31 while the 04:30 firing was waiting:
\* the scheduler has moved the job to next week and the same firing waits on
C19_Witness ==
    /\ now = Instant(0, 271)
    /\ firing[JobId(1)].pc = "waiting"
    /\ firing[JobId(1)].waited = 1
    /\ instances[JobId(1)] = 1
    /\ \E job \in store : job.id = JobId(1) /\ job.next = Instant(7, 271)

-----------------------------------------------------------------------------
(* Properties of the weekly training configuration *)

\* C21: in the /config_semana conversation an input that is not valid for the
\* current step leaves the conversation in that step; here: an answer other
\* than 'Sí' or 'No' at CONFIRM_DATA leaves it at CONFIRM_DATA.
C21_InvalidAnswerKeepsStep ==
    (conv.from = CONFIRM_DATA /\ conv.handler = "config_training_confirm"
       /\ conv.text \notin {"Sí", "No"})
      => conv.state = CONFIRM_DATA

\* C22: configure_day is an upsert keyed by weekday: under any interleaving
\* of callers there is at most one row per weekday, a commit for a weekday
\* whose row was found writes session type and location into that row and
\* keeps its id, and a call with an invalid weekday raises and leaves the
\* rows as they were.
C22_UpsertByWeekday ==
    [][/\ \A r, q \in day_configs' : r.weekday = q.weekday => r = q
       /\ \A c \in Callers :
            /\ (tx[c].pc = "queried" /\ tx[c].found # 0 /\ tx'[c].pc = "idle")
                 => /\ tx'[c].ret = "ok"
                    /\ \E r \in day_configs' :
                          /\ r.id = tx[c].found
                          /\ r.weekday = tx[c].weekday
                          /\ r.session_type = tx[c].session_type
                          /\ r.location = tx[c].location
                    /\ Cardinality(day_configs') = Cardinality(day_configs)
            /\ (tx'[c] # tx[c] /\ tx'[c].weekday \notin 0..6)
                 => /\ tx'[c].ret = "ValidationError"
                    /\ tx'[c].pc = "idle"
                    /\ day_configs' = day_configs
      ]_vars

\* both callers found no row for the weekday; one has inserted it and the
\* other's insert was refused
C22_Witness ==
    /\ \E r \in day_configs : r.weekday = 0
    /\ tx["bot"].weekday = 0 /\ tx["bot"].ret = "ok" /\ tx["bot"].found = 0
    /\ tx["api"].weekday = 0 /\ tx["api"].ret = "IntegrityError"

-----------------------------------------------------------------------------
(* Properties of concurrent scheduling *)

\* the triggers and arguments the call of thread t gives add_job
ThreadJob(t) ==
    LET c == threads[t]
        rt == CalculateReminderTime(c.training_time)
    IN  [trigger |-> ComposeTriggers(c.weekday, weekday_names[c.weekday + 1],
                                     rt[1], rt[2], c.at),
         args |-> ReminderArgs(c.chat_id, c.weekday, c.training_time)]

-----------------------------------------------------------------------------
(* Properties of the day-configuration lookup *)

\* C25: a missing or failing day-configuration lookup never prevents a
\* reminder: what send_reminder_sync does after the lookup is the same for
\* every outcome of the lookup, and a firing that waits for its delivery
\* after a lookup that found nothing or raised uses the placeholder session
\* type and location and has no storage session left open.
C25_LookupFailureStillDispatches ==
    /\ \A app \in BOOLEAN, loop \in LoopStates, d \in DayConfigs, msg \in MessageBuilds :
          ReminderStart(app, loop, d, msg) = ReminderStart(app, loop, "ok", msg)
    /\ \A id \in TrainingIds :
          (firing[JobId(id)].pc = "waiting" /\ lookup[JobId(id)].result # "ok")
            => /\ lookup[JobId(id)].session_type = "Entrenamiento"
               /\ lookup[JobId(id)].location = "Zona de Entrenamiento"
               /\ lookup[JobId(id)].db # "open"
               /\ lookup[JobId(id)].result \in {"none", "raises"}
                    => lookup[JobId(id)].db = "closed"
               /\ WaitedTask(JobId(id)) \in loop_tasks

\* a reminder waits for its delivery although its day-config query raised
C25_Witness ==
    /\ firing[JobId(1)].pc = "waiting"
    /\ lookup[JobId(1)].result = "raises"
    /\ lookup[JobId(1)].db = "closed"
    /\ \E task \in loop_tasks : task.job = JobId(1) /\ ~task.late

-----------------------------------------------------------------------------
(* Properties of the same-day trigger *)

\* the reminder job of a training holds a same-day one-shot trigger and a
\* weekly trigger that both come due now
BothTriggersDue(job) ==
    /\ Len(job.trigger) = 2
    /\ job.trigger[1].kind = "date"
    /\ job.trigger[2].kind = "cron"
    /\ job.next = DateNext(job.trigger[1], FALSE)
    /\ job.next = CronNext(job.trigger[2], Instant(job.next.day, job.next.hm - 1))
    /\ job.next = now

\* C26: when the same-day one-shot trigger and the weekly trigger of a
\* reminder job come due at the same instant, the scheduler's run of the job
\* starts at most one delivery, leaves the job not due any more at that
\* instant, and sets its next run to the same time one week later, from
\* where it recurs weekly.
C26_SameInstantTriggersFireOnce ==
    [][\A id \in TrainingIds :
          \A job \in store :
             (/\ job.id = JobId(id)
              /\ scheduler = "running"
              /\ BothTriggersDue(job)
              /\ \/ job \notin store'
                 \/ /\ firing[job.id].pc # "waiting"
                    /\ firing'[job.id] # firing[job.id])
               => /\ last' = last
                  /\ \E after \in store' :
                        /\ after.id = job.id
                        /\ after.trigger = job.trigger
                        /\ after.args = job.args
                        /\ after.next = Instant(job.next.day + 7, job.next.hm)
                        /\ Minutes(after.next) > Minutes(now')
                        /\ TriggerNext(after.trigger, TRUE, after.next)
                             = Instant(job.next.day + 14, job.next.hm)
                  /\ Cardinality({t \in loop_tasks' \ loop_tasks : t.job = job.id}) <= 1
                  /\ firing'[job.id].submits <= 1
      ]_vars

\* the Monday 05:00 training was scheduled on Monday 04:00: its job has fired
\* at 04:30, waits for its one delivery, and is next due a week later
C26_Witness ==
    /\ now = Instant(0, 270)
    /\ firing[JobId(1)].pc = "waiting"
    /\ firing[JobId(1)].submits = 1
    /\ \E job \in store :
          /\ job.id = JobId(1)
          /\ Len(job.trigger) = 2
          /\ job.next = Instant(7, 270)


\* the event loop has sent the broadcast message to the student the firing
\* waits for: send_message returned, future.result returned
WeeklyDelivered ==
    LET f == firing[WeeklyJobId]
    IN  /\ f.pc = "waiting"
        /\ WaitedTask(WeeklyJobId) \in loop_tasks
        /\ WaitedTask(WeeklyJobId) \notin loop_tasks'
        /\ firing'[WeeklyJobId] # f
        /\ firing'[WeeklyJobId].errors = f.errors

\* C29 as stated: no broadcast message is delivered to a student while the
\* broadcast config is inactive.
C29_NoBroadcastDeliveryWhileInactive ==
    [][WeeklyDelivered => config.is_active]_vars

\* C29: a firing of the broadcast job that begins while the config is inactive
\* ends without submitting any delivery, also when the job was stored before
\* the deactivation.
C29_InactiveFiringSubmitsNothing ==
    [][(~config.is_active /\ firing[WeeklyJobId].pc # "waiting")
          => /\ \A t \in loop_tasks' \ loop_tasks : t.job # WeeklyJobId
             /\ firing'[WeeklyJobId].pc # "waiting"
             /\ (firing'[WeeklyJobId] # firing[WeeklyJobId]
                   => /\ firing'[WeeklyJobId].pc = "done"
                      /\ firing'[WeeklyJobId].submits = 0
                      /\ firing'[WeeklyJobId].ret \in {"False", "none"})]_vars

\* the stored broadcast job has fired a week after a firing that delivered,
\* the config being inactive by now, and has returned False with nothing
\* submitted
C29_Witness ==
    /\ ~config.is_active
    /\ HasJob(WeeklyJobId)
    /\ firing[WeeklyJobId].pc = "done"
    /\ firing[WeeklyJobId].ret = "False"
    /\ firing[WeeklyJobId].submits = 0
    /\ firing[WeeklyJobId].students # <<>>
    /\ firing[WeeklyJobId].prior = Fired(WeeklyJobId, "Sent")
    /\ \A t \in loop_tasks : t.job # WeeklyJobId

\* C30: a firing that has ended in TimedOut has left nothing pending on the
\* event loop: the coroutine it submitted was cancelled.
C30_TimedOutLeavesNothingPending ==
    \A j \in JobIds :
        (firing[j].pc = "done" /\ firing[j].outcome = "TimedOut")
          => \A t \in loop_tasks : t.job # j

====
